---------------------------- MODULE Spec2Model ----------------------------
(***************************************************************************)
(* Model of the typed memory-field catalog and codec layer of the GSC      *)
(* (Pokemon Gold/Silver) memory toolkit: gsc_memory_lib.py and its two     *)
(* companion modules gsc_ram_fields.py and gsc_ram_map.py.                 *)
(*                                                                         *)
(* Bytes are integers 0..255, byte strings are sequences of bytes, and a   *)
(* Python call that raises is a result record with ok = FALSE and the      *)
(* exception class in err.                                                 *)
(***************************************************************************)
EXTENDS Integers, Sequences, FiniteSets, TLC

VARIABLES
    mem,    \* the emulated memory behind read_mem/write_mem: address -> non-zero byte
    fld,    \* the MemField descriptor the caller holds (resolved from the catalog)
    res     \* the last library call, its arguments and its outcome

vars == <<mem, fld, res>>

(***************************************************************************)
(* 1) RAM map constants (gsc_memory_lib.py, section 1).  Hexadecimal       *)
(* values of the source are given in the comments.                         *)
(***************************************************************************)
BATTLE_YOUR_HP_IN_BATTLE == 51996   \* 0xCB1C
WILD_POKEMON_SPECIES == 53485       \* 0xD0ED
WILD_POKEMON_LEVEL == 53500         \* 0xD0FC
BATTLE_ENEMY_STATUS == 53501        \* 0xD0FD
BATTLE_TYPE == 53526                \* 0xD116
OPTIONS_BYTE == 53657               \* 0xD199
TRAINER_ID_0 == 53665               \* TRAINER_ID[0] = 0xD1A1
TRAINER_NAME_0 == 53667             \* TRAINER_NAME[0] = 0xD1A3
TRAINER_NAME_1 == 53676             \* TRAINER_NAME[1] = 0xD1AC
PLAYER_SPRITE_ID == 53759           \* 0xD1FF
PLAYER_CLOTHES == 53763             \* 0xD203
WILD_BATTLES_ENABLED == 53771       \* 0xD20B
PLAYER_X_POS == 53773               \* 0xD20D
PLAYER_Y_POS == 53774               \* 0xD20E
MONEY_0 == 54643                    \* MONEY[0] = 0xD573
MOM_MONEY_0 == 54646                \* MOM_MONEY[0] = 0xD576
CASINO_COINS_0 == 54650             \* CASINO_COINS[0] = 0xD57A
JOHTO_BADGES == 54652               \* 0xD57C
KANTO_BADGES == 54653               \* 0xD57D
BAG_ITEM_COUNT == 54711             \* 0xD5B7
KEY_ITEM_COUNT == 54753             \* 0xD5E1
BALL_COUNT == 54780                 \* 0xD5FC
PC_STORED_ITEMS_COUNT == 54806      \* 0xD616
ON_BIKE_FLAG == 54914               \* 0xD682
REPEL_STEPS_LEFT == 55787           \* 0xD9EB
MAP_BANK == 55808                   \* 0xDA00
MAP_NUMBER == 55809                 \* 0xDA01
OVERWORLD_XY == 55810               \* 0xDA02
PARTY_COUNT == 55842                \* 0xDA22
PARTY_SPECIES_LIST_START == 55843   \* 0xDA23
PARTY_MON_STRUCT_SIZE == 48         \* 0x30
PARTY_MON_1_BASE == 55850           \* 0xDA2A
PARTY_MON_SPECIES_OFF == 0
PARTY_MON_HELD_ITEM_OFF == 1
PARTY_MON_MOVES_OFF == 2
PARTY_MON_ID_OFF == 6
PARTY_MON_EXP_OFF == 8
PARTY_MON_PP_OFF == 23              \* 0x17
PARTY_MON_HAPPINESS_OFF == 27       \* 0x1B
PARTY_MON_POKERUS_OFF == 28         \* 0x1C
PARTY_MON_LEVEL_OFF == 31           \* 0x1F
PARTY_MON_STATUS_OFF == 32          \* 0x20
PARTY_MON_HP_OFF == 34              \* 0x22
PARTY_MON_MAX_HP_OFF == 36          \* 0x24
PARTY_MON_ATK_OFF == 38             \* 0x26
PARTY_MON_DEF_OFF == 40             \* 0x28
PARTY_MON_SPD_OFF == 42             \* 0x2A
PARTY_MON_SPDEF_OFF == 44           \* 0x2C
PARTY_MON_SPATK_OFF == 46           \* 0x2E

(***************************************************************************)
(* Results of calls.                                                       *)
(***************************************************************************)
OkInt(n) == [ok |-> TRUE, err |-> "", int |-> n, bytes |-> <<>>]
OkBytes(b) == [ok |-> TRUE, err |-> "", int |-> 0, bytes |-> b]
Fail(e) == [ok |-> FALSE, err |-> e, int |-> 0, bytes |-> <<>>]

Min(a, b) == IF a <= b THEN a ELSE b
Max(a, b) == IF a >= b THEN a ELSE b

(***************************************************************************)
(* 2) Typed RAM fields: the Encoding enumeration and the codecs.           *)
(***************************************************************************)
U8 == "u8"
U16_LE == "u16_le"
U16_BE == "u16_be"
U24_LE == "u24_le"
U24_BCD == "u24_bcd"
BYTES == "bytes"
TEXT_GSC == "text_gsc"
Encoding == {U8, U16_LE, U16_BE, U24_LE, U24_BCD, BYTES, TEXT_GSC}

MemField(key, addr, size, enc) == [key |-> key, addr |-> addr, size |-> size, enc |-> enc]

\* b[0] | (b[1] << 8); the caller guarantees Len(b) >= 2 (Python raises IndexError otherwise)
_decode_u16_le(b) == b[1] + (b[2] * 256)

\* A 16-bit decoder that pairs the high byte of one value with itself
_decode_u16_be_high_twice(b) == (b[1] * 256) + b[1]

\* (b[0] << 8) | b[1]
_decode_u16_be(b) == (b[1] * 256) + b[2]

\* A 24-bit decoder that takes the first byte as the most significant
_decode_u24_le_bigendian(b) == (b[1] * 65536) + (b[2] * 256) + b[3]

\* b[0] | (b[1] << 8) | (b[2] << 16)
_decode_u24_le(b) == b[1] + (b[2] * 256) + (b[3] * 65536)

\* A decoder loop that counts a nibble above 9 as 9
RECURSIVE bcd_accumulate_saturating(_, _, _)
bcd_accumulate_saturating(b, i, val) ==
    IF i > Len(b) THEN val
    ELSE bcd_accumulate_saturating(b, i + 1,
            (((val * 10) + Min((b[i] \div 16) % 16, 9)) * 10) + Min(b[i] % 16, 9))

\* The multiply-accumulate loop of _decode_u24_bcd over the digits of the bytes
\* b[i..], starting from the accumulator val.  It runs over however many bytes
\* it is given.
RECURSIVE bcd_accumulate(_, _, _)
bcd_accumulate(b, i, val) ==
    IF i > Len(b) THEN val
    ELSE bcd_accumulate(b, i + 1, (((val * 10) + ((b[i] \div 16) % 16)) * 10) + (b[i] % 16))

_decode_u24_bcd(b) == bcd_accumulate(b, 1, 0)

\* A 16-bit encoder that saturates at the ends of 0..65535 instead of truncating
_encode_u16_le_saturating(v) ==
    LET c == IF v < 0 THEN 0 ELSE IF v > 65535 THEN 65535 ELSE v
    IN  <<c % 256, (c \div 256) % 256>>

\* bytes((v & 0xFF, (v >> 8) & 0xFF)): Python's & and >> on unbounded integers
_encode_u16_le(v) == <<v % 256, (v \div 256) % 256>>

\* The big-endian encoder with its two bytes in little-endian order
_encode_u16_be_swapped(v) == <<v % 256, (v \div 256) % 256>>

_encode_u16_be(v) == <<(v \div 256) % 256, v % 256>>

\* A 24-bit encoder that drops the most significant byte
_encode_u24_le_short(v) == <<v % 256, (v \div 256) % 256>>

_encode_u24_le(v) == <<v % 256, (v \div 256) % 256, (v \div 65536) % 256>>

\* A clamp that wraps an out-of-range value instead of saturating
bcd_clamp_wrap(v) == v % 1000000

\* The clamp of _encode_u24_bcd (lines 267-270)
bcd_clamp(v) == IF v < 0 THEN 0 ELSE IF v > 999999 THEN 999999 ELSE v

\* f"{v:06d}" for a clamped v, as the list of its six decimal digit values
bcd_nibbles(v) ==
    << (v \div 100000) % 10, (v \div 10000) % 10, (v \div 1000) % 10,
       (v \div 100) % 10, (v \div 10) % 10, v % 10 >>

\* The packing loop of _encode_u24_bcd (lines 273-275): digit pairs into bytes
bcd_pack(nibbles) == [j \in 1..3 |-> (nibbles[2 * j - 1] * 16) + nibbles[2 * j]]

\* The encoder with the two digits of each byte in the wrong nibbles
_encode_u24_bcd_lowfirst(v) ==
    LET nibbles == bcd_nibbles(bcd_clamp(v))
    IN  [j \in 1..3 |-> (nibbles[2 * j] * 16) + nibbles[2 * j - 1]]

_encode_u24_bcd(v) == bcd_pack(bcd_nibbles(bcd_clamp(v)))

(***************************************************************************)
(* The reader and writer callbacks.  Both tests and both runners build     *)
(* them as slices of one byte buffer: read_mem(addr, size) is              *)
(* bytes(memory[addr:addr + size]) and write_mem(addr, data) assigns       *)
(* memory[addr:addr + len(data)] = data.  The buffer starts zeroed         *)
(* (bytearray(0x20000)); mem holds its non-zero bytes.                     *)
(***************************************************************************)
MEM_LEN == 131072   \* 0x20000, the FakeMem buffer

Peek(m, a) == IF a \in DOMAIN m THEN m[a] ELSE 0

\* memory[addr:addr + size] of a buffer whose first `avail` bytes from addr on
\* exist: a slice ends where the buffer ends, so the reader returns
\* Min(size, avail) bytes.
read_mem(m, avail, addr, size) ==
    [i \in 1..Max(0, Min(size, avail)) |-> Peek(m, addr + i - 1)]

\* A writer that also clears the byte after the data
write_mem_one_more(m, addr, data) ==
    LET span == {addr + i - 1 : i \in 1..(Len(data) + 1)}
        keep == (DOMAIN m) \ span
        set  == {a \in span : a - addr + 1 <= Len(data) /\ data[a - addr + 1] # 0}
    IN  [a \in keep \cup set |-> IF a \in span THEN data[a - addr + 1] ELSE m[a]]

\* memory[addr:addr + len(data)] = data
write_mem(m, addr, data) ==
    LET span == {addr + i - 1 : i \in 1..Len(data)}
        keep == (DOMAIN m) \ span
        set  == {a \in span : data[a - addr + 1] # 0}
    IN  [a \in keep \cup set |-> IF a \in span THEN data[a - addr + 1] ELSE m[a]]

(***************************************************************************)
(* read_field and write_field.                                             *)
(***************************************************************************)
\* The decoding half of read_field, applied to the bytes raw the reader gave.
\* Indexing a byte the reader did not return raises IndexError.
decode_raw(raw, field) ==
    IF field.enc = U8 THEN
        IF Len(raw) < 1 THEN Fail("IndexError") ELSE OkInt(raw[1])
    ELSE IF field.enc = U16_LE THEN
        IF Len(raw) < 2 THEN Fail("IndexError") ELSE OkInt(_decode_u16_le(raw))
    ELSE IF field.enc = U16_BE THEN
        IF Len(raw) < 2 THEN Fail("IndexError") ELSE OkInt(_decode_u16_be(raw))
    ELSE IF field.enc = U24_LE THEN
        IF Len(raw) < 3 THEN Fail("IndexError") ELSE OkInt(_decode_u24_le(raw))
    ELSE IF field.enc = U24_BCD THEN OkInt(_decode_u24_bcd(raw))
    ELSE IF field.enc = BYTES THEN OkBytes(raw)
    ELSE IF field.enc = TEXT_GSC THEN OkBytes(raw)
    ELSE Fail("ValueError")

\* read_field(read_mem, field) over the memory m, the reader returning at most
\* avail bytes.
read_field(m, avail, field) == decode_raw(read_mem(m, avail, field.addr, field.size), field)

\* The bytes write_field hands to the writer for an integer encoding.
encode_int(enc, value) ==
    IF enc = U8 THEN <<value % 256>>
    ELSE IF enc = U16_LE THEN _encode_u16_le(value)
    ELSE IF enc = U16_BE THEN _encode_u16_be(value)
    ELSE IF enc = U24_LE THEN _encode_u24_le(value)
    ELSE _encode_u24_bcd(value)

IntEncodings == {U8, U16_LE, U16_BE, U24_LE, U24_BCD}
BlobEncodings == {BYTES, TEXT_GSC}

\* A length check that only rejects values longer than the field
blob_length_ok_atmost(field, b) == Len(b) <= field.size

\* The length check of the BYTES and TEXT_GSC branches (lines 320 and 326).
blob_length_ok(field, b) == Len(b) = field.size

\* write_field(write_mem, field, value): the outcome, the writer calls it made
\* (address and data of each) and the memory afterwards.  value is an integer
\* for the integer encodings and a byte string for BYTES and TEXT_GSC.
write_field(m, field, value) ==
    IF field.enc \in IntEncodings THEN
        LET data == encode_int(field.enc, value)
        IN  [ok |-> TRUE, err |-> "", wcalls |-> << <<field.addr, data>> >>,
             mem |-> write_mem(m, field.addr, data)]
    ELSE IF field.enc \in BlobEncodings THEN
        IF ~blob_length_ok(field, value)
        THEN [ok |-> FALSE, err |-> "ValueError", wcalls |-> <<>>, mem |-> m]
        ELSE [ok |-> TRUE, err |-> "", wcalls |-> << <<field.addr, value>> >>,
              mem |-> write_mem(m, field.addr, value)]
    ELSE [ok |-> FALSE, err |-> "ValueError", wcalls |-> <<>>, mem |-> m]

(***************************************************************************)
(* Address helpers of the party tables.                                    *)
(***************************************************************************)
\* A slot guard that forgets the lower bound
slot_in_range_upper_only(slot) == slot <= 5

\* The guard of party_mon_base: 0 <= slot_index_0_to_5 <= 5
slot_in_range(slot) == 0 <= slot /\ slot <= 5

PARTY_NAME_LEN == 11                \* 0x0B
PARTY_OT_NAMES_START == 56138       \* 0xDB4A
PARTY_NICKNAMES_START == 56204      \* 0xDB8C

\* gsc_memory_lib.party_ot_name_addr
party_ot_name_addr(slot) ==
    IF ~(0 <= slot /\ slot <= 5) THEN Fail("ValueError")
    ELSE OkInt(PARTY_OT_NAMES_START + (slot * PARTY_NAME_LEN))

\* A nickname lookup striding by the size of a party struct
party_nickname_addr_struct_stride(slot) ==
    IF ~(0 <= slot /\ slot <= 5) THEN Fail("ValueError")
    ELSE OkInt(PARTY_NICKNAMES_START + (slot * PARTY_MON_STRUCT_SIZE))

\* gsc_memory_lib.party_nickname_addr
party_nickname_addr(slot) ==
    IF ~(0 <= slot /\ slot <= 5) THEN Fail("ValueError")
    ELSE OkInt(PARTY_NICKNAMES_START + (slot * PARTY_NAME_LEN))

\* party_mon_base striding by the length of a name entry instead of a struct
party_mon_base_name_stride(slot) ==
    IF ~slot_in_range(slot) THEN Fail("ValueError")
    ELSE OkInt(PARTY_MON_1_BASE + (slot * PARTY_NAME_LEN))

\* gsc_memory_lib.party_mon_base
party_mon_base(slot) ==
    IF ~slot_in_range(slot) THEN Fail("ValueError")
    ELSE OkInt(PARTY_MON_1_BASE + (slot * PARTY_MON_STRUCT_SIZE))

(***************************************************************************)
(* The RAM catalog.  A Python dict is a function from its keys; a dict     *)
(* literal and the assignments cat[f.key] = f keep the last value given    *)
(* for a key.                                                              *)
(***************************************************************************)
DictOfItems(items) ==
    [k \in {items[i][1] : i \in DOMAIN items} |->
        LET last == CHOOSE i \in DOMAIN items :
                        /\ items[i][1] = k
                        /\ \A j \in DOMAIN items : items[j][1] = k => j <= i
        IN  items[last][2]]

\* The entries of the RAM_FIELDS_CORE literal, in source order: key, descriptor
RAM_FIELDS_CORE_ITEMS ==
    <<
       <<"player_sprite_id", MemField("player_sprite_id", PLAYER_SPRITE_ID, 1, U8)>>,
       <<"player_clothes", MemField("player_clothes", PLAYER_CLOTHES, 1, U8)>>,
       <<"options", MemField("options", OPTIONS_BYTE, 1, U8)>>,
       <<"trainer_id", MemField("trainer_id", TRAINER_ID_0, 2, U16_LE)>>,
       <<"player_name", MemField("player_name", TRAINER_NAME_0, TRAINER_NAME_1 - TRAINER_NAME_0 + 1, TEXT_GSC)>>,
       <<"wild_battles_enabled", MemField("wild_battles_enabled", WILD_BATTLES_ENABLED, 1, U8)>>,
       <<"player_x", MemField("player_x", PLAYER_X_POS, 1, U8)>>,
       <<"player_y", MemField("player_y", PLAYER_Y_POS, 1, U8)>>,
       <<"map_bank", MemField("map_bank", MAP_BANK, 1, U8)>>,
       <<"map_number", MemField("map_number", MAP_NUMBER, 1, U8)>>,
       <<"overworld_xy", MemField("overworld_xy", OVERWORLD_XY, 2, BYTES)>>,
       <<"money", MemField("money", MONEY_0, 3, U24_BCD)>>,
       <<"mom_money", MemField("mom_money", MOM_MONEY_0, 3, U24_BCD)>>,
       <<"casino_coins", MemField("casino_coins", CASINO_COINS_0, 2, U16_LE)>>,
       <<"johto_badges", MemField("johto_badges", JOHTO_BADGES, 1, U8)>>,
       <<"kanto_badges", MemField("kanto_badges", KANTO_BADGES, 1, U8)>>,
       <<"party_count", MemField("party_count", PARTY_COUNT, 1, U8)>>,
       <<"party_species", MemField("party_species", PARTY_SPECIES_LIST_START, 6, BYTES)>>,
       <<"bag_item_count", MemField("bag_item_count", BAG_ITEM_COUNT, 1, U8)>>,
       <<"key_item_count", MemField("key_item_count", KEY_ITEM_COUNT, 1, U8)>>,
       <<"ball_count", MemField("ball_count", BALL_COUNT, 1, U8)>>,
       <<"pc_item_count", MemField("pc_item_count", PC_STORED_ITEMS_COUNT, 1, U8)>>,
       <<"repel_steps", MemField("repel_steps", REPEL_STEPS_LEFT, 1, U8)>>,
       <<"on_bike_flag", MemField("on_bike_flag", ON_BIKE_FLAG, 1, U8)>>,
       <<"battle_type", MemField("battle_type", BATTLE_TYPE, 1, U8)>>,
       <<"wild_species", MemField("wild_species", WILD_POKEMON_SPECIES, 1, U8)>>,
       <<"wild_level", MemField("wild_level", WILD_POKEMON_LEVEL, 1, U8)>>,
       <<"your_hp_battle", MemField("your_hp_battle", BATTLE_YOUR_HP_IN_BATTLE, 2, U16_BE)>>,
       <<"enemy_status", MemField("enemy_status", BATTLE_ENEMY_STATUS, 1, U8)>>
    >>

RAM_FIELDS_CORE == DictOfItems(RAM_FIELDS_CORE_ITEMS)

\* A key prefix that leaves the slot index out
party_key_prefix_noslot(slot) == "party[]"

\* pfx = f"party[{slot_index_0_to_5}]"
party_key_prefix(slot) == "party[" \o ToString(slot) \o "]"

\* party_fields_for_slot: fails as party_mon_base does, else the 17 entries of
\* the slot in source order
party_fields_for_slot(slot) ==
    LET b == party_mon_base(slot)
    IN  IF ~b.ok THEN [ok |-> FALSE, err |-> b.err, items |-> <<>>]
        ELSE LET base == b.int
                 pfx == party_key_prefix(slot)
             IN  [ok |-> TRUE, err |-> "", items |->
         <<
           <<pfx \o ".species", MemField(pfx \o ".species", base + PARTY_MON_SPECIES_OFF, 1, U8)>>,
           <<pfx \o ".item", MemField(pfx \o ".item", base + PARTY_MON_HELD_ITEM_OFF, 1, U8)>>,
           <<pfx \o ".moves", MemField(pfx \o ".moves", base + PARTY_MON_MOVES_OFF, 4, BYTES)>>,
           <<pfx \o ".id", MemField(pfx \o ".id", base + PARTY_MON_ID_OFF, 2, U16_BE)>>,
           <<pfx \o ".exp", MemField(pfx \o ".exp", base + PARTY_MON_EXP_OFF, 3, U24_LE)>>,
           <<pfx \o ".pp", MemField(pfx \o ".pp", base + PARTY_MON_PP_OFF, 4, BYTES)>>,
           <<pfx \o ".happiness", MemField(pfx \o ".happiness", base + PARTY_MON_HAPPINESS_OFF, 1, U8)>>,
           <<pfx \o ".pokerus", MemField(pfx \o ".pokerus", base + PARTY_MON_POKERUS_OFF, 1, U8)>>,
           <<pfx \o ".level", MemField(pfx \o ".level", base + PARTY_MON_LEVEL_OFF, 1, U8)>>,
           <<pfx \o ".status", MemField(pfx \o ".status", base + PARTY_MON_STATUS_OFF, 2, U16_BE)>>,
           <<pfx \o ".hp", MemField(pfx \o ".hp", base + PARTY_MON_HP_OFF, 2, U16_BE)>>,
           <<pfx \o ".max_hp", MemField(pfx \o ".max_hp", base + PARTY_MON_MAX_HP_OFF, 2, U16_BE)>>,
           <<pfx \o ".atk", MemField(pfx \o ".atk", base + PARTY_MON_ATK_OFF, 2, U16_BE)>>,
           <<pfx \o ".def", MemField(pfx \o ".def", base + PARTY_MON_DEF_OFF, 2, U16_BE)>>,
           <<pfx \o ".spd", MemField(pfx \o ".spd", base + PARTY_MON_SPD_OFF, 2, U16_BE)>>,
           <<pfx \o ".spdef", MemField(pfx \o ".spdef", base + PARTY_MON_SPDEF_OFF, 2, U16_BE)>>,
           <<pfx \o ".spatk", MemField(pfx \o ".spatk", base + PARTY_MON_SPATK_OFF, 2, U16_BE)>>
         >>]

\* iter_all_party_fields: the descriptors of slots 0..5, slot by slot
RECURSIVE party_items_from(_)
party_items_from(i) ==
    IF i > 5 THEN <<>> ELSE party_fields_for_slot(i).items \o party_items_from(i + 1)

iter_all_party_fields == [i \in DOMAIN party_items_from(0) |-> party_items_from(0)[i][2]]

\* build_ram_catalog: dict(RAM_FIELDS_CORE), then cat[f.key] = f for each party field
build_ram_catalog(include_party) ==
    IF include_party
    THEN DictOfItems(RAM_FIELDS_CORE_ITEMS
                     \o [i \in DOMAIN iter_all_party_fields |->
                            <<iter_all_party_fields[i].key, iter_all_party_fields[i]>>])
    ELSE RAM_FIELDS_CORE

(***************************************************************************)
(* The party_mon_base copies of the two companion modules, each with its   *)
(* own constants.                                                          *)
(***************************************************************************)
RAM_FIELDS_PARTY_MON_1_BASE == 55850        \* gsc_ram_fields.PARTY_MON_1_BASE = 0xDA2A
RAM_FIELDS_PARTY_MON_STRUCT_SIZE == 48      \* gsc_ram_fields.PARTY_MON_STRUCT_SIZE = 0x30
RAM_MAP_PARTY_MON_1_BASE == 55850           \* gsc_ram_map.PARTY_MON_1_BASE = 0xDA2A
RAM_MAP_PARTY_MON_STRUCT_SIZE == 48         \* gsc_ram_map.PARTY_MON_STRUCT_SIZE = 0x30

\* gsc_ram_fields._decode_u24_bcd, the same two loops
ram_fields_decode_u24_bcd(b) == bcd_accumulate(b, 1, 0)

\* gsc_ram_fields.party_mon_base
ram_fields_party_mon_base(slot) ==
    IF ~(0 <= slot /\ slot <= 5) THEN Fail("ValueError")
    ELSE OkInt(RAM_FIELDS_PARTY_MON_1_BASE + (slot * RAM_FIELDS_PARTY_MON_STRUCT_SIZE))

\* The gsc_ram_map copy counting slots from 1
ram_map_party_mon_base_onebased(slot) ==
    IF ~(0 <= slot /\ slot <= 5) THEN Fail("ValueError")
    ELSE OkInt(RAM_MAP_PARTY_MON_1_BASE + ((slot - 1) * RAM_MAP_PARTY_MON_STRUCT_SIZE))

\* gsc_ram_map.party_mon_base
ram_map_party_mon_base(slot) ==
    IF ~(0 <= slot /\ slot <= 5) THEN Fail("ValueError")
    ELSE OkInt(RAM_MAP_PARTY_MON_1_BASE + (slot * RAM_MAP_PARTY_MON_STRUCT_SIZE))

(***************************************************************************)
(* 3) ROM map helpers.  An Optional is a sequence: <<>> for None and <<x>>  *)
(* for a value x.                                                          *)
(***************************************************************************)
None == <<>>
Some(x) == <<x>>

RomBankAddr(bank, addr) == [bank |-> bank, addr |-> addr]

\* A translation that forgets to take the window base 0x4000 off the address
bankaddr_to_file_offset_nobase(p) ==
    IF p.bank < 0 THEN Fail("ValueError")
    ELSE IF p.bank = 0 THEN
        IF ~(0 <= p.addr /\ p.addr <= 16383) THEN Fail("ValueError") ELSE OkInt(p.addr)
    ELSE IF ~(16384 <= p.addr /\ p.addr <= 32767) THEN Fail("ValueError")
    ELSE OkInt((p.bank * 16384) + p.addr)

\* A translation whose bank-0 and bank>0 windows each reach one address too far
bankaddr_to_file_offset_wide(p) ==
    IF p.bank < 0 THEN Fail("ValueError")
    ELSE IF p.bank = 0 THEN
        IF ~(0 <= p.addr /\ p.addr <= 16384) THEN Fail("ValueError") ELSE OkInt(p.addr)
    ELSE IF ~(16383 <= p.addr /\ p.addr <= 32767) THEN Fail("ValueError")
    ELSE OkInt((p.bank * 16384) + (p.addr - 16384))

\* A translation whose banks are one byte shorter than their address window
bankaddr_to_file_offset_short_bank(p) ==
    IF p.bank < 0 THEN Fail("ValueError")
    ELSE IF p.bank = 0 THEN
        IF ~(0 <= p.addr /\ p.addr <= 16383) THEN Fail("ValueError") ELSE OkInt(p.addr)
    ELSE IF ~(16384 <= p.addr /\ p.addr <= 32767) THEN Fail("ValueError")
    ELSE OkInt((p.bank * 16383) + (p.addr - 16384))

\* bankaddr_to_file_offset: 0x3FFF = 16383, 0x4000 = 16384, 0x7FFF = 32767
bankaddr_to_file_offset(p) ==
    IF p.bank < 0 THEN Fail("ValueError")
    ELSE IF p.bank = 0 THEN
        IF ~(0 <= p.addr /\ p.addr <= 16383) THEN Fail("ValueError") ELSE OkInt(p.addr)
    ELSE IF ~(16384 <= p.addr /\ p.addr <= 32767) THEN Fail("ValueError")
    ELSE OkInt((p.bank * 16384) + (p.addr - 16384))

RomRange(start_off, end_off_excl) == [start_off |-> start_off, end_off_excl |-> end_off_excl]

\* The value of a hexadecimal digit character, -1 for any other character
HexDigit(c) ==
    CASE c = "0" -> 0 [] c = "1" -> 1 [] c = "2" -> 2 [] c = "3" -> 3 [] c = "4" -> 4
      [] c = "5" -> 5 [] c = "6" -> 6 [] c = "7" -> 7 [] c = "8" -> 8 [] c = "9" -> 9
      [] c \in {"A", "a"} -> 10 [] c \in {"B", "b"} -> 11 [] c \in {"C", "c"} -> 12
      [] c \in {"D", "d"} -> 13 [] c \in {"E", "e"} -> 14 [] c \in {"F", "f"} -> 15
      [] OTHER -> -1

\* int(text, 16) of the characters t[i..], val being the value of those before
RECURSIVE hex_accumulate(_, _, _)
hex_accumulate(t, i, val) ==
    IF i > Len(t) THEN val ELSE hex_accumulate(t, i + 1, (val * 16) + HexDigit(t[i]))

\* int(text, 16) for a text made of hexadecimal digits only; an empty text and
\* a text with any other letter or punctuation is a ValueError.  (Blanks, a
\* sign, a 0x prefix and underscores, which int also accepts, are not among
\* the texts parsed here.)
int16(t) ==
    IF t = <<>> \/ \E i \in DOMAIN t : HexDigit(t[i]) < 0 THEN Fail("ValueError")
    ELSE OkInt(hex_accumulate(t, 1, 0))

\* A parser that takes the END of the text as already exclusive
parse_hex_range_exclusive(text) ==
    IF ~(\E i \in DOMAIN text : text[i] = "-")
    THEN [ok |-> FALSE, err |-> "ValueError", range |-> RomRange(0, 0)]
    ELSE LET cut == CHOOSE i \in DOMAIN text :
                        text[i] = "-" /\ \A j \in 1..(i - 1) : text[j] # "-"
             start == int16(SubSeq(text, 1, cut - 1))
             end_inclusive == int16(SubSeq(text, cut + 1, Len(text)))
         IN  IF ~start.ok \/ ~end_inclusive.ok
             THEN [ok |-> FALSE, err |-> "ValueError", range |-> RomRange(0, 0)]
             ELSE [ok |-> TRUE, err |-> "",
                   range |-> RomRange(start.int, end_inclusive.int)]

\* parse_hex_range(text): text is the sequence of the characters of the string.
\* text.split("-", 1) cuts at the first "-"; without one the unpacking fails.
parse_hex_range(text) ==
    IF ~(\E i \in DOMAIN text : text[i] = "-")
    THEN [ok |-> FALSE, err |-> "ValueError", range |-> RomRange(0, 0)]
    ELSE LET cut == CHOOSE i \in DOMAIN text :
                        text[i] = "-" /\ \A j \in 1..(i - 1) : text[j] # "-"
             start == int16(SubSeq(text, 1, cut - 1))
             end_inclusive == int16(SubSeq(text, cut + 1, Len(text)))
         IN  IF ~start.ok \/ ~end_inclusive.ok
             THEN [ok |-> FALSE, err |-> "ValueError", range |-> RomRange(0, 0)]
             ELSE [ok |-> TRUE, err |-> "",
                   range |-> RomRange(start.int, end_inclusive.int + 1)]

PTR_ALL_TILESET_POINTERS == RomBankAddr(0, 11773)   \* (0, 0x2DFD)
PTR_ALL_TILESET_POINTERS_PART2 == RomBankAddr(0, 11791)   \* (0, 0x2E0F)
PTR_COLORS_SECOND_PART == RomBankAddr(0, 11856)   \* (0, 0x2E50)
PTR_POKEMON_STATS == RomBankAddr(0, 14990)   \* (0, 0x3A8E)

WILD_PTR_JOHTO_LAND == parse_hex_range(<<"2", "A", "A", "7", "4", "-", "2", "A", "A", "7", "5">>).range   \* "2AA74-2AA75"
WILD_JOHTO_LAND == parse_hex_range(<<"2", "A", "B", "3", "5", "-", "2", "B", "6", "6", "7">>).range   \* "2AB35-2B667"
WILD_JOHTO_WATER == parse_hex_range(<<"2", "B", "6", "6", "9", "-", "2", "B", "7", "B", "E">>).range   \* "2B669-2B7BE"
WILD_KANTO_LAND == parse_hex_range(<<"2", "B", "7", "C", "0", "-", "2", "B", "D", "4", "1">>).range   \* "2B7C0-2BD41"
WILD_KANTO_WATER == parse_hex_range(<<"2", "B", "D", "4", "3", "-", "2", "B", "E", "1", "A">>).range   \* "2BD43-2BE1A"
TRAINER_BATTLE_PTRS == parse_hex_range(<<"3", "9", "9", "3", "E", "-", "3", "9", "9", "C", "0">>).range   \* "3993E-399C0"
TRAINER_POKEMON_DATA == parse_hex_range(<<"3", "9", "9", "C", "1", "-", "3", "B", "6", "8", "4">>).range   \* "399C1-3B684"
POKEDEX_ABC_ORDER == parse_hex_range(<<"4", "0", "C", "6", "5", "-", "4", "0", "D", "5", "F">>).range   \* "40C65-40D5F"
POKEDEX_NEW_ORDER == parse_hex_range(<<"4", "0", "D", "6", "0", "-", "4", "0", "E", "5", "B">>).range   \* "40D60-40E5B"
POKEDEX_TYPES_TEXT == parse_hex_range(<<"4", "0", "F", "F", "E", "-", "4", "1", "0", "8", "5">>).range   \* "40FFE-41085"
MOVES_DATA == parse_hex_range(<<"4", "1", "A", "F", "E", "-", "4", "2", "1", "D", "B">>).range   \* "41AFE-421DB"
PTR_TABLE_POKEMON_MOVES_EVOL == parse_hex_range(<<"4", "2", "7", "B", "D", "-", "4", "2", "9", "B", "2">>).range   \* "427BD-429B2"
POKEMON_MOVES_EVOL_DATA == parse_hex_range(<<"4", "2", "9", "B", "3", "-", "4", "3", "E", "5", "6">>).range   \* "429B3-43E56"
POKEPIC_POINTERS == parse_hex_range(<<"4", "8", "0", "0", "0", "-", "4", "8", "5", "D", "F">>).range   \* "48000-485DF"
POKEPIC_GRAPHICS == parse_hex_range(<<"4", "8", "5", "E", "0", "-", "4", "B", "F", "F", "F">>).range   \* "485E0-4BFFF"
MAP_BANK_POINTERS == parse_hex_range(<<"9", "4", "0", "E", "D", "-", "9", "4", "1", "2", "0">>).range   \* "940ED-94120"
MAP_PRIMARY_HEADERS == parse_hex_range(<<"9", "4", "1", "2", "1", "-", "9", "4", "E", "1", "1">>).range   \* "94121-94E11"
MAP_SECONDARY_HEADERS == parse_hex_range(<<"9", "4", "E", "1", "2", "-", "9", "6", "5", "F", "8">>).range   \* "94E12-965F8"

\* The ROM image: the synthetic ROM of test_rom_field_read_file_range,
\* bytes(range(256)) * 400
ROM_LEN == 102400

RomByte(off) == off % 256

\* rom[start:stop] for 0 <= start: the bytes at the offsets start..stop-1 that exist
rom_slice(start, stop) ==
    [i \in 1..Max(0, Min(stop, ROM_LEN) - start) |-> RomByte(start + i - 1)]

\* A range reader that takes end_off_excl as the last offset of the range
read_rom_range_closed(r) == OkBytes(rom_slice(r.start_off, r.end_off_excl + 1))

\* read_rom_range(rom, r)
read_rom_range(r) == OkBytes(rom_slice(r.start_off, r.end_off_excl))

\* read_rom_bankaddr(rom, p, size)
read_rom_bankaddr(p, size) ==
    LET off == bankaddr_to_file_offset(p)
    IN  IF ~off.ok THEN off ELSE OkBytes(rom_slice(off.int, off.int + size))

FILE_RANGE == "file_range"
BANK_ADDR == "bank_addr"

RomField(key, kind, file_range, bank_addr, size) ==
    [key |-> key, kind |-> kind, file_range |-> file_range, bank_addr |-> bank_addr,
     size |-> size]

\* A reader that returns no bytes for a descriptor lacking its location
read_rom_field_lenient(f) ==
    IF f.kind = FILE_RANGE THEN
        IF f.file_range = None THEN OkBytes(<<>>)
        ELSE read_rom_range(f.file_range[1])
    ELSE IF f.kind = BANK_ADDR THEN
        IF f.bank_addr = None \/ f.size = None THEN OkBytes(<<>>)
        ELSE read_rom_bankaddr(f.bank_addr[1], f.size[1])
    ELSE Fail("ValueError")

\* read_rom_field(rom, f)
read_rom_field(f) ==
    IF f.kind = FILE_RANGE THEN
        IF f.file_range = None THEN Fail("ValueError")
        ELSE read_rom_range(f.file_range[1])
    ELSE IF f.kind = BANK_ADDR THEN
        IF f.bank_addr = None \/ f.size = None THEN Fail("ValueError")
        ELSE read_rom_bankaddr(f.bank_addr[1], f.size[1])
    ELSE Fail("ValueError")

\* The entries of the ROM_FIELDS literal, in source order: key, descriptor
ROM_FIELDS_ITEMS ==
    <<
       <<"ptr.all_tileset_pointers", RomField("ptr.all_tileset_pointers", BANK_ADDR, None, Some(PTR_ALL_TILESET_POINTERS), Some(2))>>,
       <<"ptr.all_tileset_pointers_part2", RomField("ptr.all_tileset_pointers_part2", BANK_ADDR, None, Some(PTR_ALL_TILESET_POINTERS_PART2), Some(2))>>,
       <<"ptr.colors_second_part", RomField("ptr.colors_second_part", BANK_ADDR, None, Some(PTR_COLORS_SECOND_PART), Some(2))>>,
       <<"ptr.pokemon_stats", RomField("ptr.pokemon_stats", BANK_ADDR, None, Some(PTR_POKEMON_STATS), Some(2))>>,
       <<"wild.ptr_johto_land", RomField("wild.ptr_johto_land", FILE_RANGE, Some(WILD_PTR_JOHTO_LAND), None, None)>>,
       <<"wild.johto_land", RomField("wild.johto_land", FILE_RANGE, Some(WILD_JOHTO_LAND), None, None)>>,
       <<"wild.johto_water", RomField("wild.johto_water", FILE_RANGE, Some(WILD_JOHTO_WATER), None, None)>>,
       <<"wild.kanto_land", RomField("wild.kanto_land", FILE_RANGE, Some(WILD_KANTO_LAND), None, None)>>,
       <<"wild.kanto_water", RomField("wild.kanto_water", FILE_RANGE, Some(WILD_KANTO_WATER), None, None)>>,
       <<"trainers.battle_ptrs", RomField("trainers.battle_ptrs", FILE_RANGE, Some(TRAINER_BATTLE_PTRS), None, None)>>,
       <<"trainers.pokemon_data", RomField("trainers.pokemon_data", FILE_RANGE, Some(TRAINER_POKEMON_DATA), None, None)>>,
       <<"pokedex.abc_order", RomField("pokedex.abc_order", FILE_RANGE, Some(POKEDEX_ABC_ORDER), None, None)>>,
       <<"pokedex.new_order", RomField("pokedex.new_order", FILE_RANGE, Some(POKEDEX_NEW_ORDER), None, None)>>,
       <<"pokedex.types_text", RomField("pokedex.types_text", FILE_RANGE, Some(POKEDEX_TYPES_TEXT), None, None)>>,
       <<"moves.move_data", RomField("moves.move_data", FILE_RANGE, Some(MOVES_DATA), None, None)>>,
       <<"moves.ptr_table_pokemon_moves_evol", RomField("moves.ptr_table_pokemon_moves_evol", FILE_RANGE, Some(PTR_TABLE_POKEMON_MOVES_EVOL), None, None)>>,
       <<"moves.pokemon_moves_evol_data", RomField("moves.pokemon_moves_evol_data", FILE_RANGE, Some(POKEMON_MOVES_EVOL_DATA), None, None)>>,
       <<"pokepics.pointers", RomField("pokepics.pointers", FILE_RANGE, Some(POKEPIC_POINTERS), None, None)>>,
       <<"pokepics.graphics", RomField("pokepics.graphics", FILE_RANGE, Some(POKEPIC_GRAPHICS), None, None)>>,
       <<"maps.bank_pointers", RomField("maps.bank_pointers", FILE_RANGE, Some(MAP_BANK_POINTERS), None, None)>>,
       <<"maps.primary_headers", RomField("maps.primary_headers", FILE_RANGE, Some(MAP_PRIMARY_HEADERS), None, None)>>,
       <<"maps.secondary_headers", RomField("maps.secondary_headers", FILE_RANGE, Some(MAP_SECONDARY_HEADERS), None, None)>>
    >>

ROM_FIELDS == DictOfItems(ROM_FIELDS_ITEMS)

build_rom_catalog == ROM_FIELDS

\* cat = build_ram_catalog(include_party=True)
RamCatalog == build_ram_catalog(TRUE)

(***************************************************************************)
(* snapshot_ram.  The reader is the slice reader over the buffer, returning *)
(* at most cap bytes per call.                                             *)
(***************************************************************************)
\* The bytes a reader capped at cap bytes has from the address addr on
ReaderAvail(cap, addr) == Min(cap, MEM_LEN - addr)

\* cat.keys(): the keys in insertion order, the core literal first and then the
\* party fields slot by slot
ram_catalog_keys ==
    [i \in 1..(Len(RAM_FIELDS_CORE_ITEMS) + Len(iter_all_party_fields)) |->
        IF i <= Len(RAM_FIELDS_CORE_ITEMS) THEN RAM_FIELDS_CORE_ITEMS[i][1]
        ELSE iter_all_party_fields[i - Len(RAM_FIELDS_CORE_ITEMS)].key]

\* A comprehension that passes over a key the catalog does not have
RECURSIVE snapshot_items_skipping(_, _, _, _, _, _)
snapshot_items_skipping(m, cap, cat, keys, lo, hi) ==
    IF lo > hi
    THEN [ok |-> TRUE, err |-> "", items |-> <<>>, rcalls |-> <<>>]
    ELSE IF lo = hi
    THEN IF keys[lo] \notin DOMAIN cat
         THEN [ok |-> TRUE, err |-> "", items |-> <<>>, rcalls |-> <<>>]
         ELSE LET field == cat[keys[lo]]
                  r == read_field(m, ReaderAvail(cap, field.addr), field)
                  call == <<field.addr, field.size>>
              IN  IF ~r.ok
                  THEN [ok |-> FALSE, err |-> r.err, items |-> <<>>, rcalls |-> <<call>>]
                  ELSE [ok |-> TRUE, err |-> "", items |-> <<(<<keys[lo], r>>)>>,
                        rcalls |-> <<call>>]
    ELSE LET mid == (lo + hi) \div 2
             first == snapshot_items_skipping(m, cap, cat, keys, lo, mid)
         IN  IF ~first.ok THEN first
             ELSE LET rest == snapshot_items_skipping(m, cap, cat, keys, mid + 1, hi)
                  IN  [ok |-> rest.ok, err |-> rest.err,
                       items |-> IF rest.ok THEN first.items \o rest.items ELSE <<>>,
                       rcalls |-> first.rcalls \o rest.rcalls]

\* {k: read_field(read_mem, cat[k]) for k in keys} over keys[lo..hi], taken as
\* the keys of its first half followed by those of its second half: the entries
\* made, in order, and the reader calls made (address and size of each).  A key
\* the catalog lacks raises KeyError and a failing read raises its error;
\* either ends the comprehension there, without entries.
RECURSIVE snapshot_items(_, _, _, _, _, _)
snapshot_items(m, cap, cat, keys, lo, hi) ==
    IF lo > hi
    THEN [ok |-> TRUE, err |-> "", items |-> <<>>, rcalls |-> <<>>]
    ELSE IF lo = hi
    THEN IF keys[lo] \notin DOMAIN cat
         THEN [ok |-> FALSE, err |-> "KeyError", items |-> <<>>, rcalls |-> <<>>]
         ELSE LET field == cat[keys[lo]]
                  r == read_field(m, ReaderAvail(cap, field.addr), field)
                  call == <<field.addr, field.size>>
              IN  IF ~r.ok
                  THEN [ok |-> FALSE, err |-> r.err, items |-> <<>>, rcalls |-> <<call>>]
                  ELSE [ok |-> TRUE, err |-> "", items |-> <<(<<keys[lo], r>>)>>,
                        rcalls |-> <<call>>]
    ELSE LET mid == (lo + hi) \div 2
             first == snapshot_items(m, cap, cat, keys, lo, mid)
         IN  IF ~first.ok THEN first
             ELSE LET rest == snapshot_items(m, cap, cat, keys, mid + 1, hi)
                  IN  [ok |-> rest.ok, err |-> rest.err,
                       items |-> IF rest.ok THEN first.items \o rest.items ELSE <<>>,
                       rcalls |-> first.rcalls \o rest.rcalls]

\* snapshot_ram(read_mem, keys): keys is None or Some(sequence of keys); out is
\* the mapping returned, rcalls the reader calls made
snapshot_ram(m, cap, keys) ==
    LET req == IF keys = None THEN ram_catalog_keys ELSE keys[1]
        s == snapshot_items(m, cap, RamCatalog, req, 1, Len(req))
    IN  [ok |-> s.ok, err |-> s.err, out |-> DictOfItems(s.items), rcalls |-> s.rcalls]

(***************************************************************************)
(* Inputs of the field-access calls.                                       *)
(***************************************************************************)
\* How far the length of a byte-string value may differ from field.size
MaxLenDelta == 1

\* Integer values handed to write_field, per encoding: the ends of the range,
\* values inside it and values outside it on both sides
IntInputs(enc) ==
    IF enc = U8 THEN {-1, 0, 1, 127, 255, 256, 511}
    ELSE IF enc \in {U16_LE, U16_BE} THEN {-1, 0, 1, 255, 256, 1234, 65535, 65536, 70000}
    ELSE IF enc = U24_LE THEN {-1, 0, 1, 65536, 1193046, 16777215, 16777216}
    ELSE {-1000000, -1, 0, 1, 12, 54321, 123456, 999999, 1000000, 16777215}

\* The range of values an integer encoding represents
IntRange(enc, v) ==
    IF enc = U8 THEN v \in 0..255
    ELSE IF enc \in {U16_LE, U16_BE} THEN v \in 0..65535
    ELSE IF enc = U24_LE THEN v \in 0..16777215
    ELSE v \in 0..999999

\* A byte string of the given length counting up from start
Ramp(len, start) == [i \in 1..len |-> (start + i - 1) % 256]

\* Byte-string values handed to write_field for a field of the given size
BlobInputs(size) ==
    {Ramp(len, start) :
        len \in {0} \cup {n \in (size - MaxLenDelta)..(size + MaxLenDelta) : n >= 0},
        start \in {1, 80, 250}}

WriteInputs(field) ==
    IF field.enc \in IntEncodings THEN IntInputs(field.enc) ELSE BlobInputs(field.size)

(***************************************************************************)
(* Field access over one memory: a caller holding a descriptor of the      *)
(* catalog writes values to it and reads it back.                          *)
(***************************************************************************)
NoCall ==
    [op |-> "none", ok |-> TRUE, err |-> "", ival |-> 0, bval |-> <<>>,
     wcalls |-> <<>>, avail |-> 0]

NoField == MemField("", 0, 0, "")

\* The addresses of the bytes of the catalog's fields
CatalogBytes ==
    UNION {RamCatalog[k].addr..(RamCatalog[k].addr + RamCatalog[k].size - 1) :
              k \in DOMAIN RamCatalog}

\* The memories a session starts from: the zeroed buffer, and a buffer in
\* which every byte of every catalog field is non-zero
MemInputs == {<<>>, [a \in CatalogBytes |-> (a % 255) + 1]}

Init ==
    /\ mem \in MemInputs
    /\ fld \in {RamCatalog[k] : k \in DOMAIN RamCatalog}
    /\ res = NoCall

\* write_field(write_mem, fld, value)
WriteField(value) ==
    LET w == write_field(mem, fld, value)
    IN  /\ mem' = w.mem
        /\ res' = [op |-> "write_field", ok |-> w.ok, err |-> w.err,
                   ival |-> IF fld.enc \in IntEncodings THEN value ELSE 0,
                   bval |-> IF fld.enc \in IntEncodings THEN <<>> ELSE value,
                   wcalls |-> w.wcalls, avail |-> 0]
        /\ UNCHANGED fld

\* The bytes a slice reader over the whole buffer has from the field's address on
FullAvail(field) == MEM_LEN - field.addr

\* The readers a call may be given: the slice reader over the whole buffer, and
\* readers over a buffer that ends inside the field
ReaderInputs(field) == {FullAvail(field)} \cup {n \in 0..(field.size - 1) : n >= 0}

\* read_field(read_mem, fld), the reader returning at most avail bytes
ReadField(avail) ==
    LET r == read_field(mem, avail, fld)
    IN  /\ res' = [op |-> "read_field", ok |-> r.ok, err |-> r.err,
                   ival |-> r.int, bval |-> r.bytes, wcalls |-> <<>>, avail |-> avail]
        /\ UNCHANGED <<mem, fld>>

Next ==
    \/ \E value \in WriteInputs(fld) : WriteField(value)
    \/ \E avail \in ReaderInputs(fld) : ReadField(avail)

Spec == Init /\ [][Next]_vars

(***************************************************************************)
(* Properties of field access (specification Spec).                        *)
(***************************************************************************)
\* C1: a write_field call on a BYTES or TEXT_GSC field with a byte string whose
\* length differs from field.size fails, makes no writer call and leaves the
\* memory as it was.
C1_BlobLengthMismatchRejected ==
    [][ (/\ res'.op = "write_field"
         /\ fld'.enc \in BlobEncodings
         /\ Len(res'.bval) # fld'.size)
        => (/\ ~res'.ok
            /\ res'.wcalls = <<>>
            /\ mem' = mem) ]_vars

\* C1 witness: 3 bytes offered to a 4-byte BYTES field were rejected while an
\* earlier write of the field is still in memory
C1_Witness ==
    /\ res.op = "write_field"
    /\ fld.enc = BYTES /\ fld.size = 4
    /\ Len(res.bval) = 3
    /\ ~res.ok /\ res.wcalls = <<>>
    /\ read_mem(mem, FullAvail(fld), fld.addr, fld.size) = <<250, 251, 252, 253>>

\* C3: after write_field stores a value v of the encoding's range in an integer
\* field, read_field over the same memory returns v.
C3_IntRoundTrip ==
    (/\ res.op = "write_field"
     /\ fld.enc \in IntEncodings
     /\ IntRange(fld.enc, res.ival))
    => (/\ res.ok
        /\ read_field(mem, FullAvail(fld), fld) = OkInt(res.ival))

\* C3 witness: 1234 written to a U16_BE field reads back as 1234
C3_Witness ==
    /\ res.op = "write_field" /\ res.ok
    /\ fld.enc = U16_BE
    /\ res.ival = 1234
    /\ read_field(mem, FullAvail(fld), fld) = OkInt(1234)

\* C4: a write of v to a U24_BCD field never fails; the bytes written are
\* 00 00 00 for v < 0 and 99 99 99 for v > 999999, and the field then reads
\* back as v clamped to 0..999999.
C4_BcdClampsSilently ==
    (res.op = "write_field" /\ fld.enc = U24_BCD)
    => (/\ res.ok
        /\ Len(res.wcalls) = 1
        /\ res.ival < 0 => res.wcalls[1][2] = <<0, 0, 0>>
        /\ res.ival > 999999 => res.wcalls[1][2] = <<153, 153, 153>>
        /\ read_field(mem, FullAvail(fld), fld) = OkInt(Min(Max(res.ival, 0), 999999)))

\* C4 witness: 1000000 written to a BCD field reads back as 999999
C4_Witness ==
    /\ res.op = "write_field" /\ res.ok
    /\ fld.enc = U24_BCD
    /\ res.ival = 1000000
    /\ read_field(mem, FullAvail(fld), fld) = OkInt(999999)

\* C5: read_field on a field of more than one byte fails whenever the reader
\* returns fewer than field.size bytes.
C5_ShortReadFails ==
    (/\ res.op = "read_field"
     /\ fld.size > 1
     /\ res.avail < fld.size)
    => ~res.ok

(***************************************************************************)
(* The BCD codec on its own (specification SpecCodec): an integer is       *)
(* encoded, and the bytes of the encoding are decoded, as                  *)
(* test_bcd_roundtrip does.                                                *)
(***************************************************************************)
\* The decimal digits the in-range inputs are made of
BcdDigits == {0, 1, 2, 5, 8, 9}

BcdInRangeInputs ==
    {(a * 100000) + (b * 10000) + (c * 1000) + (d * 100) + (e * 10) + f :
        a \in BcdDigits, b \in BcdDigits, c \in BcdDigits,
        d \in BcdDigits, e \in BcdDigits, f \in BcdDigits}
    \cup {12, 54321, 123456}

BcdInputs == BcdInRangeInputs \cup {-1000000, -1, 1000000, 1234567, 16777215}

\* The nibbles the byte inputs of the decoder are made of
BcdNibbles == {0, 1, 9, 10, 15}

\* Three bytes of any content, as a BCD field of an uninitialised or corrupted
\* memory holds them
BcdByteInputs ==
    {<<(a * 16) + b, (c * 16) + d, (e * 16) + f>> :
        a \in BcdNibbles, b \in BcdNibbles, c \in BcdNibbles,
        d \in BcdNibbles, e \in BcdNibbles, f \in BcdNibbles}

\* The caller holds an integer v, or three bytes, and has not called the codec yet
InitCodec ==
    /\ mem = <<>>
    /\ fld = NoField
    /\ \/ \E v \in BcdInputs : res = [op |-> "input", v |-> v, bytes |-> <<>>, out |-> 0]
       \/ \E b \in BcdByteInputs : res = [op |-> "bytes", v |-> 0, bytes |-> b, out |-> 0]

\* encoded = _encode_u24_bcd(v)
EncodeBcd ==
    /\ res.op = "input"
    /\ res' = [res EXCEPT !.op = "_encode_u24_bcd", !.bytes = _encode_u24_bcd(res.v)]
    /\ UNCHANGED <<mem, fld>>

\* _decode_u24_bcd(encoded), of the bytes the encoder returned
DecodeBcd ==
    /\ res.op = "_encode_u24_bcd"
    /\ res' = [res EXCEPT !.op = "_decode_u24_bcd", !.out = _decode_u24_bcd(res.bytes)]
    /\ UNCHANGED <<mem, fld>>

\* _decode_u24_bcd(b) of one of the two modules, for the three bytes held
DecodeBytes(lib) ==
    /\ res.op = "bytes"
    /\ res' = [res EXCEPT !.op = lib,
                          !.out = IF lib = "gsc_memory_lib" THEN _decode_u24_bcd(res.bytes)
                                  ELSE ram_fields_decode_u24_bcd(res.bytes)]
    /\ UNCHANGED <<mem, fld>>

NextCodec ==
    \/ EncodeBcd
    \/ DecodeBcd
    \/ \E lib \in {"gsc_memory_lib", "gsc_ram_fields"} : DecodeBytes(lib)

SpecCodec == InitCodec /\ [][NextCodec]_vars

\* C2: for v in 0..999999 the encoding is three bytes whose six nibbles are
\* decimal digits with the positional value v, most significant first, and
\* decoding the encoding returns v.
C2_BcdRoundTrip ==
    (res.op \in {"_encode_u24_bcd", "_decode_u24_bcd"} /\ res.v \in 0..999999)
    => (/\ Len(res.bytes) = 3
        /\ \A j \in 1..3 : res.bytes[j] \div 16 <= 9 /\ res.bytes[j] % 16 <= 9
        /\ ((res.bytes[1] \div 16) * 100000) + ((res.bytes[1] % 16) * 10000)
           + ((res.bytes[2] \div 16) * 1000) + ((res.bytes[2] % 16) * 100)
           + ((res.bytes[3] \div 16) * 10) + (res.bytes[3] % 16) = res.v
        /\ res.op = "_decode_u24_bcd" => res.out = res.v)

\* C2 witness: 123456 encoded as 0x12 0x34 0x56 and decoded back to 123456
C2_Witness ==
    /\ res.op = "_decode_u24_bcd"
    /\ res.v = 123456
    /\ res.bytes = <<18, 52, 86>>
    /\ res.out = 123456

\* C16: for any three bytes, with n0..n5 their nibbles in order (high nibble of
\* a byte before its low nibble), both _decode_u24_bcd copies return the sum of
\* n_i * 10^(5-i), a nibble above 9 counted with its value; the result is in
\* 0..999999 when every nibble is at most 9, and 0xFF 0xFF 0xFF decodes to
\* 1666665.
C16_BcdDecodeAnyBytes ==
    (res.op \in {"gsc_memory_lib", "gsc_ram_fields"})
    => LET n0 == res.bytes[1] \div 16
           n1 == res.bytes[1] % 16
           n2 == res.bytes[2] \div 16
           n3 == res.bytes[2] % 16
           n4 == res.bytes[3] \div 16
           n5 == res.bytes[3] % 16
       IN  /\ res.out = (n0 * 100000) + (n1 * 10000) + (n2 * 1000) + (n3 * 100)
                        + (n4 * 10) + n5
           /\ (\A n \in {n0, n1, n2, n3, n4, n5} : n <= 9) => res.out \in 0..999999
           /\ res.bytes = <<255, 255, 255>> => res.out = 1666665

\* C16 witness: 0xFF 0xFF 0xFF decoded to 1666665, above the largest BCD value
C16_Witness ==
    /\ res.op = "gsc_memory_lib"
    /\ res.bytes = <<255, 255, 255>>
    /\ res.out = 1666665
    /\ res.out > 999999

(***************************************************************************)
(* The address helpers and the ROM readers on their own (specification     *)
(* SpecAddr): each step is one call, res holds its arguments and outcome.  *)
(***************************************************************************)
\* How far below 0 and above 5 the slot arguments reach
SlotMargin == 3
\* The largest bank argument
MaxBank == 3

SlotInputs == (0 - SlotMargin)..(5 + SlotMargin)
BankInputs == (-1)..MaxBank
\* 0x2DFD, 0x3FFE, 0x3FFF, 0x4000, 0x4001, 0x7FFE, 0x7FFF, 0x8000, 0xFFFF
AddrInputs == {-1, 0, 1, 11773, 16382, 16383, 16384, 16385, 32766, 32767, 32768, 65535}
SizeInputs == {1, 2}
Libs == {"gsc_memory_lib", "gsc_ram_fields", "gsc_ram_map"}

\* Ranges inside the ROM, empty ones, and ones reaching to and past its end
RomRangeInputs ==
    {RomRange(0, 0), RomRange(0, 4), RomRange(16, 20), RomRange(250, 260), RomRange(20, 16),
     RomRange(ROM_LEN - 1, ROM_LEN), RomRange(ROM_LEN - 2, ROM_LEN + 2),
     RomRange(ROM_LEN, ROM_LEN + 4), RomRange(ROM_LEN + 1, ROM_LEN + 3)}

\* The numbers the range texts are written from: 0x2AA74, 0x2AA75 and 0x965F8
\* are ends of ranges of the ROM map
HexValues == {0, 10, 15, 16, 255, 174708, 174709, 615928}

\* The hexadecimal digits of n, most significant first, in capitals
RECURSIVE HexText(_)
HexText(n) ==
    LET digit == <<"0", "1", "2", "3", "4", "5", "6", "7", "8", "9",
                   "A", "B", "C", "D", "E", "F">>[(n % 16) + 1]
    IN  IF n < 16 THEN <<digit>> ELSE Append(HexText(n \div 16), digit)

\* The text "START-END"
RangeText(start, end) == HexText(start) \o <<"-">> \o HexText(end)

\* The texts parse_hex_range is called with: well-formed ones, one in small
\* letters, and texts without a "-", without a START and with a letter that is
\* no digit
HexRangeInputs ==
    {RangeText(a, b) : a \in HexValues, b \in HexValues}
    \cup {<<"a", "b", "-", "f", "f">>, <<"1", "2", "3">>, <<"-", "5">>, <<"G", "-", "1">>,
          <<"1", "-">>, <<>>}

\* The descriptors read_rom_field is called with: the ROM catalog, a BANK_ADDR
\* descriptor for each probed location, and descriptors lacking their location
RomFieldInputs ==
    {ROM_FIELDS[k] : k \in DOMAIN ROM_FIELDS}
    \cup {RomField("probe", BANK_ADDR, None, Some(RomBankAddr(b, a)), Some(2)) :
            b \in BankInputs, a \in AddrInputs}
    \cup {RomField("probe", FILE_RANGE, None, None, None),
          RomField("probe", FILE_RANGE, None, Some(RomBankAddr(0, 0)), Some(2)),
          RomField("probe", BANK_ADDR, None, None, Some(2)),
          RomField("probe", BANK_ADDR, None, Some(RomBankAddr(0, 0)), None),
          RomField("probe", BANK_ADDR, Some(RomRange(16, 20)), None, None),
          RomField("probe", "other", None, None, None)}
    \cup {RomField("probe", FILE_RANGE, Some(r), None, None) : r \in RomRangeInputs}

NoAddrCall ==
    [op |-> "none", lib |-> "", slot |-> 0, key |-> "", bank |-> 0, addr |-> 0, size |-> 0,
     kind |-> "", ok |-> TRUE, err |-> "", int |-> 0, bytes |-> <<>>, count |-> 0,
     form |-> "", start_off |-> 0, end_off_excl |-> 0, text |-> <<>>]

InitAddr ==
    /\ mem = <<>>
    /\ fld = NoField
    /\ res = NoAddrCall

\* party_mon_base(slot) of one of the three modules
PartyMonBase(lib, slot) ==
    LET r == IF lib = "gsc_memory_lib" THEN party_mon_base(slot)
             ELSE IF lib = "gsc_ram_fields" THEN ram_fields_party_mon_base(slot)
             ELSE ram_map_party_mon_base(slot)
    IN  /\ res' = [NoAddrCall EXCEPT !.op = "party_mon_base", !.lib = lib, !.slot = slot,
                                     !.ok = r.ok, !.err = r.err, !.int = r.int]
        /\ UNCHANGED <<mem, fld>>

\* party_fields_for_slot(slot); count is the number of descriptors constructed
PartyFieldsForSlot(slot) ==
    LET r == party_fields_for_slot(slot)
    IN  /\ res' = [NoAddrCall EXCEPT !.op = "party_fields_for_slot",
                                     !.lib = "gsc_memory_lib", !.slot = slot,
                                     !.ok = r.ok, !.err = r.err, !.count = Len(r.items)]
        /\ UNCHANGED <<mem, fld>>

\* bankaddr_to_file_offset(RomBankAddr(bank, addr))
BankAddrToFileOffset(bank, addr) ==
    LET r == bankaddr_to_file_offset(RomBankAddr(bank, addr))
    IN  /\ res' = [NoAddrCall EXCEPT !.op = "bankaddr_to_file_offset",
                                     !.bank = bank, !.addr = addr,
                                     !.ok = r.ok, !.err = r.err, !.int = r.int]
        /\ UNCHANGED <<mem, fld>>

\* read_rom_bankaddr(rom, RomBankAddr(bank, addr), size)
ReadRomBankAddr(bank, addr, size) ==
    LET r == read_rom_bankaddr(RomBankAddr(bank, addr), size)
    IN  /\ res' = [NoAddrCall EXCEPT !.op = "read_rom_bankaddr",
                                     !.bank = bank, !.addr = addr, !.size = size,
                                     !.ok = r.ok, !.err = r.err, !.bytes = r.bytes]
        /\ UNCHANGED <<mem, fld>>

\* read_rom_field(rom, f); bank, addr and size are those of a BANK_ADDR
\* descriptor that has them, start_off and end_off_excl those of a FILE_RANGE
\* descriptor that has them, and form tells which of the two the descriptor
\* has for its kind, if any
ReadRomField(f) ==
    LET r == read_rom_field(f)
        located == f.kind = BANK_ADDR /\ f.bank_addr # None /\ f.size # None
        ranged == f.kind = FILE_RANGE /\ f.file_range # None
    IN  /\ res' = [NoAddrCall EXCEPT !.op = "read_rom_field", !.kind = f.kind,
                                     !.key = f.key,
                                     !.form = IF located THEN BANK_ADDR
                                              ELSE IF ranged THEN FILE_RANGE ELSE "",
                                     !.start_off = IF ranged THEN f.file_range[1].start_off ELSE 0,
                                     !.end_off_excl =
                                         IF ranged THEN f.file_range[1].end_off_excl ELSE 0,
                                     !.bank = IF located THEN f.bank_addr[1].bank ELSE 0,
                                     !.addr = IF located THEN f.bank_addr[1].addr ELSE 0,
                                     !.size = IF located THEN f.size[1] ELSE 0,
                                     !.count = IF located THEN 1 ELSE 0,
                                     !.ok = r.ok, !.err = r.err, !.bytes = r.bytes]
        /\ UNCHANGED <<mem, fld>>

\* party_ot_name_addr(slot) or party_nickname_addr(slot)
PartyNameAddr(helper, slot) ==
    LET r == IF helper = "party_ot_name_addr" THEN party_ot_name_addr(slot)
             ELSE party_nickname_addr(slot)
    IN  /\ res' = [NoAddrCall EXCEPT !.op = helper, !.lib = "gsc_memory_lib", !.slot = slot,
                                     !.ok = r.ok, !.err = r.err, !.int = r.int]
        /\ UNCHANGED <<mem, fld>>

\* parse_hex_range(text)
ParseHexRange(text) ==
    LET r == parse_hex_range(text)
    IN  /\ res' = [NoAddrCall EXCEPT !.op = "parse_hex_range", !.text = text,
                                     !.ok = r.ok, !.err = r.err,
                                     !.start_off = r.range.start_off,
                                     !.end_off_excl = r.range.end_off_excl]
        /\ UNCHANGED <<mem, fld>>

\* build_ram_catalog(include_party); assigned counts the entries of the core
\* literal and the assignments cat[f.key] = f
BuildRamCatalog(include_party) ==
    /\ res' = [op |-> "build_ram_catalog", include_party |-> include_party,
               cat |-> build_ram_catalog(include_party),
               assigned |-> Len(RAM_FIELDS_CORE_ITEMS)
                            + (IF include_party THEN Len(iter_all_party_fields) ELSE 0)]
    /\ UNCHANGED <<mem, fld>>

NextAddr ==
    \/ \E include_party \in BOOLEAN : BuildRamCatalog(include_party)
    \/ \E lib \in Libs, slot \in SlotInputs : PartyMonBase(lib, slot)
    \/ \E slot \in SlotInputs : PartyFieldsForSlot(slot)
    \/ \E bank \in BankInputs, addr \in AddrInputs : BankAddrToFileOffset(bank, addr)
    \/ \E bank \in BankInputs, addr \in AddrInputs, size \in SizeInputs :
            ReadRomBankAddr(bank, addr, size)
    \/ \E f \in RomFieldInputs : ReadRomField(f)
    \/ \E helper \in {"party_ot_name_addr", "party_nickname_addr"}, slot \in SlotInputs :
            PartyNameAddr(helper, slot)
    \/ \E text \in HexRangeInputs : ParseHexRange(text)

SpecAddr == InitAddr /\ [][NextAddr]_vars

(***************************************************************************)
(* Properties of the address helpers and ROM readers (specification        *)
(* SpecAddr).                                                              *)
(***************************************************************************)
\* C6: for every slot in 0..5 party_mon_base returns 0xDA2A + slot * 0x30, the
\* three copies of party_mon_base return the same address, and
\* party_mon_base(5) - party_mon_base(0) is 5 * PARTY_MON_STRUCT_SIZE.
C6_PartyMonBaseAddress ==
    (res.op = "party_mon_base" /\ res.slot \in 0..5)
    => (/\ res.ok
        /\ res.int = 55850 + (res.slot * 48)
        /\ ram_fields_party_mon_base(res.slot) = party_mon_base(res.slot)
        /\ ram_map_party_mon_base(res.slot) = party_mon_base(res.slot)
        /\ party_mon_base(5).int - party_mon_base(0).int = 5 * PARTY_MON_STRUCT_SIZE)

\* C6 witness: the gsc_ram_map copy returned 0xDA2A + 5 * 0x30 for slot 5
C6_Witness ==
    /\ res.op = "party_mon_base" /\ res.lib = "gsc_ram_map"
    /\ res.slot = 5
    /\ res.ok /\ res.int = 56090

\* C7: for a slot outside 0..5 party_mon_base and party_fields_for_slot fail
\* with a ValueError, and party_fields_for_slot constructs no descriptor.
C7_SlotOutOfRangeFails ==
    (res.op \in {"party_mon_base", "party_fields_for_slot"} /\ res.slot \notin 0..5)
    => (/\ ~res.ok
        /\ res.err = "ValueError"
        /\ res.count = 0)

\* C7 witness: party_fields_for_slot(6) failed
C7_Witness ==
    /\ res.op = "party_fields_for_slot"
    /\ res.slot = 6
    /\ ~res.ok /\ res.count = 0

\* C8 as stated: for every slot in 0..5, party_mon_base(slot + 1) minus
\* party_mon_base(slot) is 0x30.
C8_StrideForSlots0To5 ==
    (res.op = "party_mon_base" /\ res.lib = "gsc_memory_lib" /\ res.slot \in 0..5)
    => (/\ party_mon_base(res.slot + 1).ok
        /\ party_mon_base(res.slot + 1).int - res.int = 48)

\* C8 as amended: for every slot in 0..4, party_mon_base(slot + 1) minus
\* party_mon_base(slot) is 0x30; for slot 5 the call party_mon_base(slot + 1)
\* fails with a ValueError.
C8_StrideForSlots0To4 ==
    (res.op = "party_mon_base" /\ res.lib = "gsc_memory_lib" /\ res.slot \in 0..5)
    => IF res.slot <= 4
       THEN /\ res.ok
            /\ party_mon_base(res.slot + 1).ok
            /\ party_mon_base(res.slot + 1).int - res.int = 48
       ELSE party_mon_base(res.slot + 1) = Fail("ValueError")

\* C8 witness: party_mon_base(4) returned an address 0x30 below party_mon_base(5)
C8_Witness ==
    /\ res.op = "party_mon_base" /\ res.lib = "gsc_memory_lib"
    /\ res.slot = 4 /\ res.ok
    /\ party_mon_base(5).int - res.int = 48

\* C9: bankaddr_to_file_offset returns addr for bank 0 with addr in
\* 0x0000..0x3FFF and bank * 0x4000 + (addr - 0x4000) for a bank >= 1 with addr
\* in 0x4000..0x7FFF.
C9_BankTranslation ==
    (res.op = "bankaddr_to_file_offset")
    => (/\ (res.bank = 0 /\ res.addr \in 0..16383)
            => (res.ok /\ res.int = res.addr)
        /\ (res.bank >= 1 /\ res.addr \in 16384..32767)
            => (res.ok /\ res.int = (res.bank * 16384) + (res.addr - 16384))
        /\ (res.bank = 0 /\ res.addr = 0) => res.int = 0
        /\ (res.bank = 0 /\ res.addr = 16383) => res.int = 16383
        /\ (res.bank = 1 /\ res.addr = 16384) => res.int = 16384
        /\ (res.bank = 2 /\ res.addr = 16384) => res.int = 32768)

\* C9 witness: (2, 0x4000) translated to 0x8000
C9_Witness ==
    /\ res.op = "bankaddr_to_file_offset"
    /\ res.bank = 2 /\ res.addr = 16384
    /\ res.ok /\ res.int = 32768

\* Whether addr lies outside the window of the bank
OutOfBankRange(bank, addr) ==
    \/ bank = 0 /\ addr \notin 0..16383
    \/ bank >= 1 /\ addr \notin 16384..32767

\* C10: for an address outside the window of its bank, bankaddr_to_file_offset
\* fails with a ValueError, and read_rom_bankaddr and read_rom_field on that
\* location fail without returning bytes.
C10_OutOfRangeAddrRejected ==
    (/\ \/ res.op \in {"bankaddr_to_file_offset", "read_rom_bankaddr"}
        \/ res.op = "read_rom_field" /\ res.count = 1
     /\ OutOfBankRange(res.bank, res.addr))
    => (/\ ~res.ok
        /\ res.err = "ValueError"
        /\ res.bytes = <<>>)

\* C10 witness: read_rom_field on a descriptor at (1, 0x3FFF) failed
C10_Witness ==
    /\ res.op = "read_rom_field" /\ res.kind = BANK_ADDR
    /\ res.bank = 1 /\ res.addr = 16383
    /\ ~res.ok /\ res.bytes = <<>>

\* The keys party_fields_for_slot generates for a slot
PartyKeys(slot) ==
    {party_fields_for_slot(slot).items[j][1] : j \in DOMAIN party_fields_for_slot(slot).items}

\* C11: in the catalog build_ram_catalog returns every key maps to the
\* descriptor carrying that key; the keys of a party slot collide neither with
\* a core key nor with a key of another slot; with include_party the catalog
\* has 29 + 6 * 17 entries, one per entry assigned, and without it exactly the
\* 29 core entries.
C11_CatalogKeysUnique ==
    (res.op = "build_ram_catalog")
    => (/\ \A k \in DOMAIN res.cat : res.cat[k].key = k
        /\ Cardinality(DOMAIN RAM_FIELDS_CORE) = 29
        /\ \A i \in 0..5 :
              /\ Cardinality(PartyKeys(i)) = 17
              /\ PartyKeys(i) \cap DOMAIN RAM_FIELDS_CORE = {}
              /\ \A j \in 0..5 : i # j => PartyKeys(i) \cap PartyKeys(j) = {}
        /\ Cardinality(DOMAIN res.cat) = res.assigned
        /\ res.include_party
              => /\ Cardinality(DOMAIN res.cat) = 29 + (6 * 17)
                 /\ \A i \in 0..5 : PartyKeys(i) \subseteq DOMAIN res.cat
        /\ ~res.include_party => res.cat = RAM_FIELDS_CORE)

\* C11 witness: the full catalog was built, with 131 entries, among them the
\* species field of slot 5
C11_Witness ==
    /\ res.op = "build_ram_catalog" /\ res.include_party
    /\ Cardinality(DOMAIN res.cat) = 131
    /\ "party[5].species" \in DOMAIN res.cat
    /\ res.cat["party[5].species"].addr = 56090

(***************************************************************************)
(* Further properties of field access (specification Spec).                *)
(***************************************************************************)
\* The byte width of an integer encoding
FixedWidth(enc) ==
    IF enc = U8 THEN 1 ELSE IF enc \in {U16_LE, U16_BE} THEN 2 ELSE 3

\* C12: every catalog field of an integer encoding declares the width of its
\* encoding as its size, and every write_field call that succeeds on a catalog
\* field makes one writer call, at field.addr, with exactly field.size bytes.
C12_WriteIsFieldSizeBytes ==
    /\ \A k \in DOMAIN RamCatalog :
          RamCatalog[k].enc \in IntEncodings
              => RamCatalog[k].size = FixedWidth(RamCatalog[k].enc)
    /\ (res.op = "write_field" /\ res.ok)
          => /\ Len(res.wcalls) = 1
             /\ res.wcalls[1][1] = fld.addr
             /\ Len(res.wcalls[1][2]) = fld.size

\* C12 witness: a write to the U24_LE experience field of a party slot handed
\* the writer three bytes at the field's address
C12_Witness ==
    /\ res.op = "write_field" /\ res.ok
    /\ fld.key = "party[2].exp" /\ fld.enc = U24_LE /\ fld.size = 3
    /\ res.ival = 1193046
    /\ res.wcalls = << <<fld.addr, <<86, 52, 18>> >> >>

\* The number of values of an integer encoding: 2^8, 2^16 or 2^24
Modulus(enc) ==
    IF enc = U8 THEN 256 ELSE IF enc \in {U16_LE, U16_BE} THEN 65536 ELSE 16777216

\* C14: write_field of any integer v, negative or wider than the field, to a
\* U8, U16_LE, U16_BE or U24_LE field succeeds and stores v mod 2^8, 2^16 or
\* 2^24; read_field then returns that residue.
C14_IntegerWritesTruncate ==
    (res.op = "write_field" /\ fld.enc \in {U8, U16_LE, U16_BE, U24_LE})
    => (/\ res.ok
        /\ read_field(mem, FullAvail(fld), fld) = OkInt(res.ival % Modulus(fld.enc))
        /\ (res.ival % Modulus(fld.enc)) \in 0..(Modulus(fld.enc) - 1))

\* C14 witness: 70000 written to a U16_LE field reads back as 70000 - 65536
C14_Witness ==
    /\ res.op = "write_field" /\ res.ok
    /\ fld.enc = U16_LE
    /\ res.ival = 70000
    /\ read_field(mem, FullAvail(fld), fld) = OkInt(4464)

\* C15: with b0, b1, b2 the bytes at field.addr, read_field returns b0 for U8,
\* b0 + 256*b1 for U16_LE, 256*b0 + b1 for U16_BE and b0 + 256*b1 + 65536*b2
\* for U24_LE; write_field of v stores the bytes of v mod 2^width in that
\* order, U16_BE with the most significant byte at field.addr.
C15_ByteOrder ==
    LET b0 == Peek(mem, fld.addr)
        b1 == Peek(mem, fld.addr + 1)
        b2 == Peek(mem, fld.addr + 2)
        v  == res.ival % Modulus(fld.enc)
    IN  /\ (res.op = "read_field" /\ res.avail = FullAvail(fld))
           => /\ fld.enc = U8 => (res.ok /\ res.ival = b0)
              /\ fld.enc = U16_LE => (res.ok /\ res.ival = b0 + (256 * b1))
              /\ fld.enc = U16_BE => (res.ok /\ res.ival = (256 * b0) + b1)
              /\ fld.enc = U24_LE => (res.ok /\ res.ival = b0 + (256 * b1) + (65536 * b2))
        /\ (res.op = "write_field")
           => /\ fld.enc = U8 => b0 = v
              /\ fld.enc = U16_LE => (b0 = v % 256 /\ b1 = v \div 256)
              /\ fld.enc = U16_BE => (b0 = v \div 256 /\ b1 = v % 256)
              /\ fld.enc = U24_LE
                    => (b0 = v % 256 /\ b1 = (v \div 256) % 256 /\ b2 = v \div 65536)

\* C15 witness: a U24_LE field holding the bytes 0x56 0x34 0x12 read as 0x123456
C15_Witness ==
    /\ res.op = "read_field" /\ res.ok /\ res.avail = FullAvail(fld)
    /\ fld.enc = U24_LE
    /\ read_mem(mem, FullAvail(fld), fld.addr, 3) = <<86, 52, 18>>
    /\ res.ival = 1193046

\* Whether the byte ranges of two fields have no address in common
Disjoint(f, g) == f.addr + f.size <= g.addr \/ g.addr + g.size <= f.addr

\* C23: the byte ranges of any two fields of the full catalog are disjoint,
\* every field of party slot i lies inside the 0x30 bytes from
\* party_mon_base(i) on, and a successful write_field to one catalog field
\* leaves what read_field returns for every other catalog field unchanged.
C23_FieldsDoNotOverlap ==
    /\ \A j \in DOMAIN RamCatalog, k \in DOMAIN RamCatalog :
          j # k => Disjoint(RamCatalog[j], RamCatalog[k])
    /\ \A i \in 0..5 : \A n \in DOMAIN party_fields_for_slot(i).items :
          LET f == party_fields_for_slot(i).items[n][2]
          IN  /\ party_mon_base(i).int <= f.addr
              /\ f.addr + f.size <= party_mon_base(i).int + 48
    /\ [][ (res'.op = "write_field" /\ res'.ok)
           => \A k \in DOMAIN RamCatalog :
                 k # fld.key
                    => read_field(mem', FullAvail(RamCatalog[k]), RamCatalog[k])
                       = read_field(mem, FullAvail(RamCatalog[k]), RamCatalog[k]) ]_vars

\* C23 witness: 65535 was written to the hp of party slot 0 while the fields on
\* both sides of it, status and max_hp, hold the non-zero values they had
C23_Witness ==
    /\ res.op = "write_field" /\ res.ok
    /\ fld.key = "party[0].hp" /\ res.ival = 65535
    /\ RamCatalog["party[0].status"].addr + 2 = fld.addr
    /\ RamCatalog["party[0].max_hp"].addr = fld.addr + 2
    /\ Peek(mem, fld.addr - 1) = ((fld.addr - 1) % 255) + 1
    /\ Peek(mem, fld.addr + 2) = ((fld.addr + 2) % 255) + 1

(***************************************************************************)
(* Snapshots (specification SpecSnap): a caller writes values to one field *)
(* of the catalog and takes snapshots of the memory.                       *)
(***************************************************************************)
\* The fields the caller writes between snapshots, one of each encoding
SnapshotFields ==
    {RamCatalog[k] : k \in {"party_count", "trainer_id", "party[1].hp", "party[0].exp",
                            "money", "overworld_xy", "player_name"}}

InitSnap ==
    /\ mem = <<>>
    /\ fld \in SnapshotFields
    /\ res = NoCall

\* The key lists a snapshot is asked for: all keys, none, the field's own key
\* alone, among others, twice, after a key the catalog lacks, and a key of a
\* slot that does not exist
SnapshotKeyInputs(field) ==
    {None, Some(<<>>), Some(<<field.key>>),
     Some(<<"money", field.key, "trainer_id">>),
     Some(<<field.key, "player_name", field.key>>),
     Some(<<"money", "no_such_key", field.key>>),
     Some(<<"party[6].hp">>)}

\* The readers of a snapshot: the slice reader, and one returning a byte a call
SnapshotReaderInputs == {MEM_LEN, 1}

\* snapshot_ram(read_mem, keys)
Snapshot(cap, keys) ==
    LET r == snapshot_ram(mem, cap, keys)
    IN  /\ res' = [op |-> "snapshot_ram", ok |-> r.ok, err |-> r.err, cap |-> cap,
                   keys |-> keys, out |-> r.out, rcalls |-> r.rcalls]
        /\ UNCHANGED <<mem, fld>>

NextSnap ==
    \/ \E value \in WriteInputs(fld) : WriteField(value)
    \/ \E cap \in SnapshotReaderInputs, keys \in SnapshotKeyInputs(fld) : Snapshot(cap, keys)

SpecSnap == InitSnap /\ [][NextSnap]_vars

\* The keys a snapshot call was asked for
Requested(keys) == IF keys = None THEN ram_catalog_keys ELSE keys[1]

\* Whether every requested key is in the catalog and reads without error
\* through a reader capped at cap bytes
AllReadable(m, cap, req) ==
    \A i \in DOMAIN req :
        /\ req[i] \in DOMAIN RamCatalog
        /\ read_field(m, ReaderAvail(cap, RamCatalog[req[i]].addr), RamCatalog[req[i]]).ok

\* C13: when every requested key is in the catalog and reads without error,
\* snapshot_ram returns a mapping whose keys are exactly the requested keys
\* (all catalog keys when keys is None), each mapped to what read_field returns
\* for its descriptor, having called the reader once per requested key in
\* request order; otherwise the call fails and returns no mapping.
C13_SnapshotIsReadFieldPerKey ==
    (res.op = "snapshot_ram")
    => LET req == Requested(res.keys)
       IN  IF AllReadable(mem, res.cap, req)
           THEN /\ res.ok
                /\ DOMAIN res.out = {req[i] : i \in DOMAIN req}
                /\ res.keys = None => DOMAIN res.out = DOMAIN RamCatalog
                /\ \A k \in DOMAIN res.out :
                      res.out[k] = read_field(mem, ReaderAvail(res.cap, RamCatalog[k].addr),
                                              RamCatalog[k])
                /\ res.rcalls = [i \in DOMAIN req |->
                                    <<RamCatalog[req[i]].addr, RamCatalog[req[i]].size>>]
           ELSE /\ ~res.ok
                /\ res.out = <<>>

\* C13 witness: a snapshot of money, the hp of party slot 1 and trainer_id, after
\* 1234 was written to that hp field, returned the three values from three
\* reader calls in that order
C13_Witness ==
    /\ res.op = "snapshot_ram" /\ res.ok
    /\ fld.key = "party[1].hp"
    /\ res.keys = Some(<<"money", "party[1].hp", "trainer_id">>)
    /\ DOMAIN res.out = {"money", "party[1].hp", "trainer_id"}
    /\ res.out["party[1].hp"] = OkInt(1234)
    /\ res.out["money"] = OkInt(0)
    /\ Len(res.rcalls) = 3
    /\ res.rcalls[2] = <<fld.addr, 2>>

(***************************************************************************)
(* Further properties of the address helpers and ROM readers (SpecAddr).   *)
(***************************************************************************)
\* C17: read_rom_field on a FILE_RANGE descriptor with a range of offsets
\* start_off >= 0 returns the bytes of the ROM at the offsets i with
\* start_off <= i < min(end_off_excl, len(rom)), in order and nothing else; a
\* range reaching past the end of the ROM gives fewer bytes, or none, and no
\* error.
C17_FileRangeIsRomSlice ==
    (/\ res.op = "read_rom_field"
     /\ res.kind = FILE_RANGE /\ res.form = FILE_RANGE
     /\ res.start_off >= 0)
    => (/\ res.ok
        /\ Len(res.bytes) = Max(0, Min(res.end_off_excl, ROM_LEN) - res.start_off)
        /\ \A i \in DOMAIN res.bytes : res.bytes[i] = RomByte(res.start_off + i - 1)
        /\ res.end_off_excl <= ROM_LEN
              => Len(res.bytes) = Max(0, res.end_off_excl - res.start_off)
        /\ res.start_off >= ROM_LEN => res.bytes = <<>>)

\* C17 witness: a range of four offsets, two of them past the end of the ROM,
\* read as the last two bytes of the ROM
C17_Witness ==
    /\ res.op = "read_rom_field" /\ res.kind = FILE_RANGE /\ res.ok
    /\ res.start_off = ROM_LEN - 2 /\ res.end_off_excl = ROM_LEN + 2
    /\ res.bytes = <<254, 255>>

\* C18: for a slot in 0..5 party_ot_name_addr returns PARTY_OT_NAMES_START +
\* slot * 11 and party_nickname_addr returns PARTY_NICKNAMES_START + slot * 11;
\* for any other slot both fail with a ValueError.
C18_PartyNameAddresses ==
    (res.op \in {"party_ot_name_addr", "party_nickname_addr"})
    => IF res.slot \in 0..5
       THEN /\ res.ok
            /\ res.op = "party_ot_name_addr" => res.int = 56138 + (res.slot * 11)
            /\ res.op = "party_nickname_addr" => res.int = 56204 + (res.slot * 11)
            /\ res.slot = 0 => res.int \in {PARTY_OT_NAMES_START, PARTY_NICKNAMES_START}
            /\ res.slot >= 1
                  => /\ res.op = "party_ot_name_addr"
                          => res.int - party_ot_name_addr(res.slot - 1).int = 11
                     /\ res.op = "party_nickname_addr"
                          => res.int - party_nickname_addr(res.slot - 1).int = 11
       ELSE /\ ~res.ok
            /\ res.err = "ValueError"

\* C18 witness: party_nickname_addr(5) returned the table start plus 55
C18_Witness ==
    /\ res.op = "party_nickname_addr"
    /\ res.slot = 5
    /\ res.ok /\ res.int = 56259

\* The ranges of the FILE_RANGE descriptors of the ROM catalog
StaticRanges ==
    {ROM_FIELDS[k].file_range[1] : k \in {j \in DOMAIN ROM_FIELDS : ROM_FIELDS[j].kind = FILE_RANGE}}

\* C19: parse_hex_range of the text "START-END" returns the range with
\* start_off = START and end_off_excl = END + 1, END - START + 1 offsets long;
\* for START-START the range has end_off_excl = start_off + 1; and every range
\* of the ROM catalog has start_off < end_off_excl.
C19_ParseHexRangeHalfOpen ==
    /\ (res.op = "parse_hex_range")
       => \A a \in HexValues, b \in HexValues :
             res.text = RangeText(a, b)
                => /\ res.ok
                   /\ res.start_off = a
                   /\ res.end_off_excl = b + 1
                   /\ res.end_off_excl - res.start_off = (b - a) + 1
                   /\ a = b => res.end_off_excl = res.start_off + 1
    /\ \A r \in StaticRanges : r.start_off < r.end_off_excl
    /\ WILD_PTR_JOHTO_LAND = RomRange(174708, 174710)

\* C19 witness: "2AA74-2AA75" parsed to the two offsets 0x2AA74 and 0x2AA75
C19_Witness ==
    /\ res.op = "parse_hex_range" /\ res.ok
    /\ res.text = <<"2", "A", "A", "7", "4", "-", "2", "A", "A", "7", "5">>
    /\ res.start_off = 174708 /\ res.end_off_excl = 174710

\* C20: every FILE_RANGE descriptor of the ROM catalog has file_range set and
\* bank_addr and size unset, every BANK_ADDR descriptor has bank_addr and size
\* set and file_range unset, and read_rom_field on a descriptor lacking the
\* location of its kind fails with a ValueError and returns no bytes.
C20_OneLocationFormPerKind ==
    /\ \A k \in DOMAIN ROM_FIELDS :
          LET f == ROM_FIELDS[k]
          IN  /\ f.kind \in {FILE_RANGE, BANK_ADDR}
              /\ f.kind = FILE_RANGE
                    => (f.file_range # None /\ f.bank_addr = None /\ f.size = None)
              /\ f.kind = BANK_ADDR
                    => (f.bank_addr # None /\ f.size # None /\ f.file_range = None)
    /\ (res.op = "read_rom_field" /\ res.kind \in {FILE_RANGE, BANK_ADDR} /\ res.form = "")
          => (/\ ~res.ok
              /\ res.err = "ValueError"
              /\ res.bytes = <<>>)

\* C20 witness: read_rom_field on a BANK_ADDR descriptor without its location
\* failed
C20_Witness ==
    /\ res.op = "read_rom_field" /\ res.kind = BANK_ADDR
    /\ res.form = ""
    /\ ~res.ok /\ res.err = "ValueError"

(***************************************************************************)
(* The emulation speed (specification SpecSpeed).  A speed is a positive   *)
(* rational <<numerator, denominator>> in lowest terms; the multipliers    *)
(* are 1.5 = 3/2 and 1 / 1.5 = 2/3.                                        *)
(***************************************************************************)
RECURSIVE Gcd(_, _)
Gcd(a, b) == IF b = 0 THEN a ELSE Gcd(b, a % b)

Rat(n, d) == <<n \div Gcd(n, d), d \div Gcd(n, d)>>
RatMul(x, y) == Rat(x[1] * y[1], x[2] * y[2])
RatLeq(x, y) == x[1] * y[2] <= y[1] * x[2]
RatMin(x, y) == IF RatLeq(y, x) THEN y ELSE x
RatMax(x, y) == IF RatLeq(x, y) THEN y ELSE x

MIN_SPEED == Rat(1, 4)      \* 0.25
MAX_SPEED == Rat(10, 1)     \* 10.0

\* A clamp without the lower bound
clamp_speed_no_floor(current, mult) == RatMin(MAX_SPEED, RatMul(current, mult))

\* clamp_speed: max(MIN_SPEED, min(MAX_SPEED, current * mult))
clamp_speed(current, mult) == RatMax(MIN_SPEED, RatMin(MAX_SPEED, RatMul(current, mult)))

\* apply_speed(pyboy, current, mult): the speed returned and the speeds handed
\* to pyboy.set_emulation_speed
apply_speed(current, mult) ==
    LET new_speed == clamp_speed(current, mult)
    IN  [speed |-> new_speed, set_calls |-> <<new_speed>>]

\* How many speed changes a run makes
MaxSpeedCalls == 12

\* speed = 1.0 before the first key
InitSpeed ==
    /\ mem = <<>>
    /\ fld = NoField
    /\ res = [op |-> "none", current |-> Rat(1, 1), mult |-> Rat(1, 1),
              speed |-> Rat(1, 1), set_calls |-> <<>>, calls |-> 0]

\* adjust_speed(mult): speed = apply_speed(pyboy, speed, mult)
AdjustSpeed(mult) ==
    /\ res.calls < MaxSpeedCalls
    /\ LET r == apply_speed(res.speed, mult)
       IN  res' = [op |-> "apply_speed", current |-> res.speed, mult |-> mult,
                   speed |-> r.speed, set_calls |-> r.set_calls, calls |-> res.calls + 1]
    /\ UNCHANGED <<mem, fld>>

NextSpeed ==
    \/ AdjustSpeed(Rat(3, 2))
    \/ AdjustSpeed(Rat(2, 3))

SpecSpeed == InitSpeed /\ [][NextSpeed]_vars

\* C21: after any sequence of apply_speed calls with the multipliers 1.5 and
\* 1 / 1.5 from the speed 1.0, the speed returned lies in MIN_SPEED..MAX_SPEED,
\* the call handed exactly that speed to the emulator, once, a call with 1.5
\* did not lower the speed and a call with 1 / 1.5 did not raise it.
C21_SpeedStaysInRange ==
    (res.op = "apply_speed")
    => (/\ RatLeq(Rat(1, 4), res.speed)
        /\ RatLeq(res.speed, Rat(10, 1))
        /\ res.set_calls = <<res.speed>>
        /\ res.mult = Rat(3, 2) => RatLeq(res.current, res.speed)
        /\ res.mult = Rat(2, 3) => RatLeq(res.speed, res.current))

\* C21 witness: a slow-down from 8/27 would give 16/81, below 0.25, and
\* returned 0.25
C21_Witness ==
    /\ res.op = "apply_speed"
    /\ res.current = <<8, 27>> /\ res.mult = <<2, 3>>
    /\ res.speed = <<1, 4>>
    /\ res.set_calls = << <<1, 4>> >>

(***************************************************************************)
(* A snapshot beside a running game (specification SpecTorn).  snapshot_ram *)
(* makes one reader call per key; the emulated program owns the memory and *)
(* may change it between two of those calls.  res.pc is the position of    *)
(* the snapshot in its key list (0 when no snapshot is under way) and      *)
(* res.hist the memory states that have existed.                           *)
(***************************************************************************)
\* How many times the emulated program changes the memory
MaxEmulatorSteps == 3

\* The hit points the emulated program gives the first party member: 0x012C,
\* 0x0203 and 0x000A
HpInputs == {300, 515, 10}

TornKeyInputs == {<<"party[0].hp", "party[0].max_hp">>, <<"party[0].max_hp">>}

InitTorn ==
    /\ mem = <<>>
    /\ fld = NoField
    /\ res = [op |-> "none", pc |-> 0, keys |-> <<>>, items |-> <<>>, out |-> <<>>,
              done |-> FALSE, hist |-> {<<>>}, steps |-> 0]

\* The emulated program heals the first party member to a new maximum: it
\* stores v in hp and in max_hp, between two reader calls of the snapshot or
\* while none is under way
EmulatorStep(v) ==
    /\ res.steps < MaxEmulatorSteps
    /\ LET m1 == write_field(mem, RamCatalog["party[0].hp"], v).mem
           m2 == write_field(m1, RamCatalog["party[0].max_hp"], v).mem
       IN  /\ mem' = m2
           /\ res' = [res EXCEPT !.hist = @ \cup {m2}, !.steps = @ + 1]
    /\ UNCHANGED fld

\* snapshot_ram(read_mem, keys) is called
SnapshotCall(keys) ==
    /\ res.pc = 0
    /\ res' = [res EXCEPT !.op = "snapshot_ram", !.pc = 1, !.keys = keys,
                          !.items = <<>>, !.out = <<>>, !.done = FALSE]
    /\ UNCHANGED <<mem, fld>>

\* The comprehension reads the field of its next key with one reader call
SnapshotRead ==
    /\ res.pc \in 1..Len(res.keys)
    /\ LET r == snapshot_items(mem, MEM_LEN, RamCatalog, res.keys, res.pc, res.pc)
       IN  res' = [res EXCEPT !.items = @ \o r.items, !.pc = @ + 1]
    /\ UNCHANGED <<mem, fld>>

\* The comprehension is through its keys and snapshot_ram returns the mapping
SnapshotReturn ==
    /\ res.pc = Len(res.keys) + 1
    /\ res' = [res EXCEPT !.out = DictOfItems(res.items), !.done = TRUE, !.pc = 0]
    /\ UNCHANGED <<mem, fld>>

NextTorn ==
    \/ \E v \in HpInputs : EmulatorStep(v)
    \/ \E keys \in TornKeyInputs : SnapshotCall(keys)
    \/ SnapshotRead
    \/ SnapshotReturn

SpecTorn == InitTorn /\ [][NextTorn]_vars

\* C22: every value a snapshot has read, each with one reader call, is the
\* value its field had in a memory state that existed: a single field is
\* never torn.  (That the mapping as a whole may match no memory state that
\* existed is what the witness shows.)
C22_SingleFieldNeverTorn ==
    \A i \in DOMAIN res.items :
        LET field == RamCatalog[res.items[i][1]]
        IN  /\ field.enc = U16_BE
            /\ \E h \in res.hist :
                  res.items[i][2] = OkInt((256 * Peek(h, field.addr)) + Peek(h, field.addr + 1))
            /\ res.items[i][2].int \in HpInputs \cup {0}

\* C22 witness: a snapshot returned hp = 300 and max_hp = 515 although hp and
\* max_hp were equal in every memory state that existed
C22_Witness ==
    /\ res.op = "snapshot_ram" /\ res.done
    /\ res.out = [k \in {"party[0].hp", "party[0].max_hp"} |->
                    IF k = "party[0].hp" THEN OkInt(300) ELSE OkInt(515)]
    /\ \A h \in res.hist :
          read_field(h, FullAvail(RamCatalog["party[0].hp"]), RamCatalog["party[0].hp"])
          = read_field(h, FullAvail(RamCatalog["party[0].max_hp"]), RamCatalog["party[0].max_hp"])

\* C29: the bank translation is injective and rejects negative banks: two
\* distinct valid locations never map to the same file offset, bank b >= 1
\* maps its window 0x4000..0x7FFF onto the offsets b*0x4000 .. b*0x4000 +
\* 0x3FFF in order, bank 0 maps 0x0000..0x3FFF onto the same offsets, and a
\* bank below 0 fails with an error.
C29_BankTranslationInjective ==
    (res.op = "bankaddr_to_file_offset") =>
        /\ (res.bank < 0) => (~res.ok /\ res.err = "ValueError")
        /\ res.ok =>
              /\ \A bank \in BankInputs, addr \in AddrInputs :
                     LET other == bankaddr_to_file_offset(RomBankAddr(bank, addr))
                     IN  (other.ok /\ other.int = res.int) =>
                             (bank = res.bank /\ addr = res.addr)
              /\ (res.bank >= 1) =>
                     /\ res.int \in (res.bank * 16384)..((res.bank * 16384) + 16383)
                     /\ res.int - (res.bank * 16384) = res.addr - 16384
              /\ (res.bank = 0) => (res.int \in 0..16383 /\ res.int = res.addr)
        /\ \A bank \in 1..MaxBank :
              /\ bankaddr_to_file_offset(RomBankAddr(bank, 16384)) = OkInt(bank * 16384)
              /\ bankaddr_to_file_offset(RomBankAddr(bank, 32767)) = OkInt((bank * 16384) + 16383)

\* The last address of bank 2 maps to the offset just below the first one of
\* bank 3
C29_Witness ==
    /\ res.op = "bankaddr_to_file_offset"
    /\ res.ok
    /\ res.bank = 2
    /\ res.addr = 32767
    /\ res.int = 49151
    /\ bankaddr_to_file_offset(RomBankAddr(3, 16384)).int = 49152

(***************************************************************************)
(* The text codec of the GUI (run_emulator_gui.py) and the player_name     *)
(* edit of _apply_edits (specification SpecText).  A Python string is the  *)
(* sequence of its characters.                                             *)
(***************************************************************************)
UpperChars == <<"A", "B", "C", "D", "E", "F", "G", "H", "I", "J", "K", "L", "M",
                "N", "O", "P", "Q", "R", "S", "T", "U", "V", "W", "X", "Y", "Z">>
LowerChars == <<"a", "b", "c", "d", "e", "f", "g", "h", "i", "j", "k", "l", "m",
                "n", "o", "p", "q", "r", "s", "t", "u", "v", "w", "x", "y", "z">>
DigitChars == <<"0", "1", "2", "3", "4", "5", "6", "7", "8", "9">>

InChars(chars, ch) == \E i \in DOMAIN chars : chars[i] = ch
\* ord(ch) - ord(chars[1])
OrdOffset(chars, ch) == (CHOOSE i \in DOMAIN chars : chars[i] = ch) - 1

\* The byte one character of the text becomes (the if/elif chain of lines 103-112)
encode_gsc_char(ch) ==
    IF ch = " " THEN 127
    ELSE IF InChars(UpperChars, ch) THEN 128 + OrdOffset(UpperChars, ch)
    ELSE IF InChars(LowerChars, ch) THEN 160 + OrdOffset(LowerChars, ch)
    ELSE IF InChars(DigitChars, ch) THEN 246 + OrdOffset(DigitChars, ch)
    ELSE 127

\* An encoder that ends the text with one terminator and does not pad
encode_gsc_text_unpadded(text, size) ==
    LET n == Min(Len(text), Max(size, 0))
        out == [i \in 1..n |-> encode_gsc_char(text[i])] \o <<80>>
    IN  SubSeq(out, 1, Min(Len(out), Max(size, 0)))

\* encode_gsc_text(text, size): the loop stops once size bytes are out, one
\* 0x50 is appended, 0x50 pads up to size, and out[:size] is returned.  For a
\* negative size out[:size] drops the last -size bytes of the one terminator.
encode_gsc_text(text, size) ==
    LET n == Min(Len(text), Max(size, 0))
        out == [i \in 1..n |-> encode_gsc_char(text[i])] \o <<80>>
        padded == out \o [i \in 1..Max(0, size - Len(out)) |-> 80]
    IN  IF size >= 0 THEN SubSeq(padded, 1, size)
        ELSE SubSeq(padded, 1, Max(0, Len(padded) + size))

\* The character one byte of a text decodes to
decode_gsc_char(b) ==
    IF b = 127 \/ b = 0 THEN " "
    ELSE IF b >= 128 /\ b <= 153 THEN UpperChars[b - 128 + 1]
    ELSE IF b >= 160 /\ b <= 185 THEN LowerChars[b - 160 + 1]
    ELSE IF b >= 246 /\ b <= 255 THEN DigitChars[b - 246 + 1]
    ELSE "?"

\* str.strip() of a text whose only whitespace character is the space
StrStrip(text) ==
    LET inked == {i \in DOMAIN text : text[i] # " "}
    IN  IF inked = {} THEN <<>>
        ELSE SubSeq(text, CHOOSE i \in inked : \A j \in inked : i <= j,
                          CHOOSE i \in inked : \A j \in inked : i >= j)

\* decode_gsc_text(raw): the characters of the bytes before the first 0x50,
\* stripped
decode_gsc_text(raw) ==
    LET stops == {i \in DOMAIN raw : raw[i] = 80}
        n == IF stops = {} THEN Len(raw)
             ELSE (CHOOSE i \in stops : \A j \in stops : i <= j) - 1
    IN  StrStrip([i \in 1..n |-> decode_gsc_char(raw[i])])

\* The longest field size of the text inputs
MaxTextSize == 12

TextInputs ==
    { <<>>,
      <<"R", "E", "D">>,
      <<"A", "s", "h", " ", "9">>,
      <<"Z", "z", "0", "-", "!">>,
      <<"T", "R", "A", "I", "N", "E", "R">>,
      <<"G", "o", "l", "d", "e", "n", "r", "o", "d", " ", "2", "0", "0", "0">> }

\* The TEXT_GSC fields an edit is written to: player_name of the catalog and a
\* field of every size up to MaxTextSize
TextFieldInputs ==
    {RamCatalog["player_name"]}
    \cup {MemField("text", PARTY_NICKNAMES_START, size, TEXT_GSC) : size \in 0..MaxTextSize}

NoTextEdit == [op |-> "edit_buffer", text |-> <<>>, raw |-> <<>>, ok |-> TRUE,
               err |-> "", wcalls |-> <<>>]

\* The edit buffer holds a text for a TEXT_GSC field; memory holds other text
InitText ==
    /\ fld \in TextFieldInputs
    /\ mem \in {<<>>, [a \in fld.addr..(fld.addr + fld.size) |-> 132]}
    /\ \E text \in TextInputs : res = [NoTextEdit EXCEPT !.text = text]

\* The player_name branch of _apply_edits: raw = encode_gsc_text(text,
\* field.size); write_field(write_mem, field, raw)
ApplyTextEdit ==
    /\ res.op = "edit_buffer"
    /\ LET raw == encode_gsc_text(res.text, fld.size)
           w == write_field(mem, fld, raw)
       IN  /\ mem' = w.mem
           /\ res' = [res EXCEPT !.op = "_apply_edits", !.raw = raw, !.ok = w.ok,
                                 !.err = w.err, !.wcalls = w.wcalls]
    /\ UNCHANGED fld

NextText == ApplyTextEdit

SpecText == InitText /\ [][NextText]_vars

\* C27: encode_gsc_text(text, size) returns exactly size bytes for every text
\* and every size >= 0: the encodings of the first min(len(text), size)
\* characters (space and unsupported characters 0x7F, A-Z from 0x80, a-z from
\* 0xA0, 0-9 from 0xF6) followed only by 0x50 bytes; writing the result to a
\* TEXT_GSC field of that size never fails the length check of write_field,
\* and the field then holds these bytes.
C27_EncodedTextFitsField ==
    (res.op = "_apply_edits") =>
        LET n == Min(Len(res.text), fld.size)
        IN  /\ Len(res.raw) = fld.size
            /\ \A i \in 1..fld.size :
                  res.raw[i] = IF i > n THEN 80
                               ELSE IF InChars(UpperChars, res.text[i])
                                    THEN 127 + (CHOOSE k \in 1..26 : UpperChars[k] = res.text[i])
                               ELSE IF InChars(LowerChars, res.text[i])
                                    THEN 159 + (CHOOSE k \in 1..26 : LowerChars[k] = res.text[i])
                               ELSE IF InChars(DigitChars, res.text[i])
                                    THEN 245 + (CHOOSE k \in 1..10 : DigitChars[k] = res.text[i])
                               ELSE 127
            /\ res.ok
            /\ res.wcalls = << <<fld.addr, res.raw>> >>
            /\ read_mem(mem, MEM_LEN, fld.addr, fld.size) = res.raw

\* A text longer than the field is cut, a shorter one is padded, and an
\* unsupported character is written as 0x7F
C27_Witness ==
    /\ res.op = "_apply_edits"
    /\ fld = RamCatalog["player_name"]
    /\ res.text = <<"Z", "z", "0", "-", "!">>
    /\ res.raw = <<153, 185, 246, 127, 127, 80, 80, 80, 80, 80>>
    /\ res.ok

(***************************************************************************)
(* The party editor of the GUI (specification SpecParty): the handlers     *)
(* that append and delete a party member, select the active slot and       *)
(* buffer edits.  mem is the emulator's memory; res holds the GUI's state  *)
(* and the outcome of the last handler.                                    *)
(***************************************************************************)
PARTY_MON_HP_EV_OFF == 11           \* 0x0B
PARTY_MON_IV_AD_OFF == 21           \* 0x15
PARTY_MON_IV_SS_OFF == 22           \* 0x16
PARTY_MON_CAUGHT_DATA_OFF == 29     \* 0x1D

\* str.upper() of a text
StrUpper(text) ==
    [i \in DOMAIN text |->
        IF InChars(LowerChars, text[i]) THEN UpperChars[OrdOffset(LowerChars, text[i]) + 1]
        ELSE text[i]]

\* key.startswith("party[")
StartsWithParty(key) == Len(key) >= 6 /\ SubSeq(key, 1, 6) = "party["

\* The memory after the writer calls of a handler, in order
RECURSIVE WriteAll(_, _)
WriteAll(m, calls) ==
    IF calls = <<>> THEN m
    ELSE WriteAll(write_mem(m, calls[1][1], calls[1][2]), Tail(calls))

\* (list(values) + [0, 0, 0, 0])[:4], each & 0xFF
PadFour(values) == [i \in 1..4 |-> IF i <= Len(values) THEN values[i] % 256 ELSE 0]

w8(base, off, v) == <<base + off, <<v % 256>>>>
w16be(base, off, v) == <<base + off, <<(v \div 256) % 256, v % 256>>>>
w24le(base, off, v) == <<base + off, <<v % 256, (v \div 256) % 256, (v \div 65536) % 256>>>>

\* A species list that leaves the entries after the new member as they were
append_species_list_keep_tail(old, slot, new_count, species_id) ==
    [i \in 1..7 |-> IF i = 7 THEN 255
                    ELSE IF i = slot + 1 THEN species_id % 256
                    ELSE old[i]]

\* The species list _append_party_pokemon writes (lines 872-878)
append_species_list(old, slot, new_count, species_id) ==
    [i \in 1..7 |-> IF i = 7 THEN 255
                    ELSE IF i - 1 >= new_count THEN 0
                    ELSE IF i = slot + 1 THEN species_id % 256
                    ELSE old[i]]

\* _append_party_pokemon(species_id, level) over the memory m.  suggested is
\* what _suggest_moves_for_species_level returns (move ids, PP values) and
\* species_name what names.species_name returns.
_append_party_pokemon(m, species_id, level, suggested, species_name) ==
    LET count == read_mem(m, MEM_LEN, PARTY_COUNT, 1)[1]
    IN  IF count >= 6
        THEN [ok |-> FALSE, err |-> "Party is full", wcalls |-> <<>>, mem |-> m,
              active_party_slot |-> None]
        ELSE
        LET slot == count
            new_count == count + 1
            count_call == <<PARTY_COUNT, <<new_count % 256>>>>
            m1 == write_mem(m, PARTY_COUNT, <<new_count % 256>>)
            species_list == append_species_list(
                                read_mem(m1, MEM_LEN, PARTY_SPECIES_LIST_START, 7),
                                slot, new_count, species_id)
            base == party_mon_base(slot).int
            exp == Min(16777215, level * level * level)
            max_hp == Max(12, 10 + (level * 3))
            stat == Max(5, 5 + (level * 2))
            struct_calls ==
                << count_call,
                   <<PARTY_SPECIES_LIST_START, species_list>>,
                   w8(base, PARTY_MON_SPECIES_OFF, species_id),
                   w8(base, PARTY_MON_HELD_ITEM_OFF, 0),
                   <<base + PARTY_MON_MOVES_OFF, PadFour(suggested[1])>>,
                   <<base + PARTY_MON_PP_OFF, PadFour(suggested[2])>>,
                   w16be(base, PARTY_MON_ID_OFF, 0),
                   w24le(base, PARTY_MON_EXP_OFF, exp),
                   <<base + PARTY_MON_HP_EV_OFF, [i \in 1..10 |-> 0]>>,
                   w8(base, PARTY_MON_IV_AD_OFF, 136),
                   w8(base, PARTY_MON_IV_SS_OFF, 136),
                   w8(base, PARTY_MON_HAPPINESS_OFF, 70),
                   w8(base, PARTY_MON_POKERUS_OFF, 0),
                   <<base + PARTY_MON_CAUGHT_DATA_OFF, <<0, 0>>>>,
                   w8(base, PARTY_MON_LEVEL_OFF, level),
                   w16be(base, PARTY_MON_STATUS_OFF, 0),
                   w16be(base, PARTY_MON_HP_OFF, max_hp),
                   w16be(base, PARTY_MON_MAX_HP_OFF, max_hp),
                   w16be(base, PARTY_MON_ATK_OFF, stat),
                   w16be(base, PARTY_MON_DEF_OFF, stat),
                   w16be(base, PARTY_MON_SPD_OFF, stat),
                   w16be(base, PARTY_MON_SPATK_OFF, stat),
                   w16be(base, PARTY_MON_SPDEF_OFF, stat) >>
            m2 == WriteAll(m, struct_calls)
            decoded == decode_gsc_text(read_mem(m2, MEM_LEN, TRAINER_NAME_0,
                                                (TRAINER_NAME_1 - TRAINER_NAME_0) + 1))
            trainer_name == IF decoded = <<>> THEN <<"T", "R", "A", "I", "N", "E", "R">>
                            ELSE decoded
            nickname == IF StrUpper(species_name) = <<>>
                        THEN <<"P", "O", "K", "E", "M", "O", "N">>
                        ELSE StrUpper(species_name)
            name_calls ==
                << <<party_ot_name_addr(slot).int,
                     encode_gsc_text(StrUpper(trainer_name), PARTY_NAME_LEN)>>,
                   <<party_nickname_addr(slot).int,
                     encode_gsc_text(nickname, PARTY_NAME_LEN)>> >>
        IN  [ok |-> TRUE, err |-> "", wcalls |-> struct_calls \o name_calls,
             mem |-> WriteAll(m2, name_calls), active_party_slot |-> Some(slot)]

\* The species list _delete_party_pokemon writes (lines 1261-1273)
delete_species_list(old, slot, old_count) ==
    [i \in 1..7 |-> IF i = 7 THEN 255
                    ELSE IF i - 1 >= old_count - 1 THEN 0
                    ELSE IF i - 1 >= slot THEN old[i + 1]
                    ELSE old[i]]

\* A shift that copies the struct and the OT name of slot i + 1 but not its
\* nickname
RECURSIVE delete_shift_no_nickname(_, _, _)
delete_shift_no_nickname(m, i, old_count) ==
    IF i >= old_count - 1 THEN [mem |-> m, wcalls |-> <<>>]
    ELSE
    LET calls1 == << <<party_mon_base(i).int,
                       read_mem(m, MEM_LEN, party_mon_base(i + 1).int, PARTY_MON_STRUCT_SIZE)>> >>
        m1 == WriteAll(m, calls1)
        calls2 == << <<party_ot_name_addr(i).int,
                       read_mem(m1, MEM_LEN, party_ot_name_addr(i + 1).int, PARTY_NAME_LEN)>> >>
        m2 == WriteAll(m1, calls2)
        rest == delete_shift_no_nickname(m2, i + 1, old_count)
    IN  [mem |-> rest.mem, wcalls |-> calls1 \o calls2 \o rest.wcalls]

\* The loop of lines 1276-1284: for i in range(slot, old_count - 1), the
\* struct, the OT name and the nickname of slot i + 1 are read and written to
\* slot i, each read seeing the writes before it
RECURSIVE delete_shift(_, _, _)
delete_shift(m, i, old_count) ==
    IF i >= old_count - 1 THEN [mem |-> m, wcalls |-> <<>>]
    ELSE
    LET calls1 == << <<party_mon_base(i).int,
                       read_mem(m, MEM_LEN, party_mon_base(i + 1).int, PARTY_MON_STRUCT_SIZE)>> >>
        m1 == WriteAll(m, calls1)
        calls2 == << <<party_ot_name_addr(i).int,
                       read_mem(m1, MEM_LEN, party_ot_name_addr(i + 1).int, PARTY_NAME_LEN)>> >>
        m2 == WriteAll(m1, calls2)
        calls3 == << <<party_nickname_addr(i).int,
                       read_mem(m2, MEM_LEN, party_nickname_addr(i + 1).int, PARTY_NAME_LEN)>> >>
        m3 == WriteAll(m2, calls3)
        rest == delete_shift(m3, i + 1, old_count)
    IN  [mem |-> rest.mem, wcalls |-> calls1 \o calls2 \o calls3 \o rest.wcalls]

\* _delete_party_pokemon() over the memory m and the GUI state: the active
\* slot, the edit buffer and the keys being edited.  confirmed is the answer
\* of messagebox.askyesno.
_delete_party_pokemon(m, active_party_slot, edit_buffer, editing_keys, confirmed) ==
    LET count == read_mem(m, MEM_LEN, PARTY_COUNT, 1)[1]
        slot == active_party_slot
        unchanged(status) ==
            [status |-> status, wcalls |-> <<>>, mem |-> m,
             active_party_slot |-> active_party_slot,
             edit_buffer |-> edit_buffer, editing_keys |-> editing_keys]
    IN  IF count <= 0 THEN unchanged("Party is empty")
        ELSE IF slot >= count THEN unchanged("Slot is empty")
        ELSE IF ~confirmed THEN unchanged("")
        ELSE
        LET old_count == count
            new_count == old_count - 1
            list_calls ==
                << <<PARTY_SPECIES_LIST_START,
                     delete_species_list(read_mem(m, MEM_LEN, PARTY_SPECIES_LIST_START, 7),
                                         slot, old_count)>> >>
            shifted == delete_shift(WriteAll(m, list_calls), slot, old_count)
            last_slot == old_count - 1
            clear_calls ==
                << <<party_mon_base(last_slot).int, [i \in 1..PARTY_MON_STRUCT_SIZE |-> 0]>>,
                   <<party_ot_name_addr(last_slot).int, encode_gsc_text(<<>>, PARTY_NAME_LEN)>>,
                   <<party_nickname_addr(last_slot).int, encode_gsc_text(<<>>, PARTY_NAME_LEN)>>,
                   <<PARTY_COUNT, <<new_count % 256>>>> >>
        IN  [status |-> "Deleted party slot",
             wcalls |-> list_calls \o shifted.wcalls \o clear_calls,
             mem |-> WriteAll(shifted.mem, clear_calls),
             active_party_slot |->
                 Max(0, Min(slot, IF new_count > 0 THEN new_count - 1 ELSE 0)),
             edit_buffer |->
                 [k \in {k \in DOMAIN edit_buffer : ~StartsWithParty(k)} |-> edit_buffer[k]],
             editing_keys |-> {k \in editing_keys : ~StartsWithParty(k)}]

\* The number of handler calls followed
MaxPartySteps == 2

\* A party member the game holds in slot i: its struct, OT name and nickname
GameStruct(i) == [off \in 1..PARTY_MON_STRUCT_SIZE |-> ((((i + 1) * 37) + (off * 3)) % 251) + 1]
GameOtName(i) == <<145 + i, 132, 131>> \o [k \in 1..(PARTY_NAME_LEN - 3) |-> 80]
GameNickname(i) == <<128 + i, 160 + i>> \o [k \in 1..(PARTY_NAME_LEN - 2) |-> 80]

\* The memory of a game whose party has n members: the species list names
\* them and ends with 0xFF after the last one; the slots after them still
\* hold the members that were there before
GameParty(n, trainer) ==
    WriteAll(<<>>,
        << <<PARTY_COUNT, <<n>>>>,
           <<PARTY_SPECIES_LIST_START,
             [i \in 1..7 |-> IF i - 1 = n \/ i = 7 THEN 255 ELSE GameStruct(i - 1)[1]]>>,
           <<TRAINER_NAME_0, trainer>> >>
        \o [i \in 1..6 |-> <<party_mon_base(i - 1).int, GameStruct(i - 1)>>]
        \o [i \in 1..6 |-> <<party_ot_name_addr(i - 1).int, GameOtName(i - 1)>>]
        \o [i \in 1..6 |-> <<party_nickname_addr(i - 1).int, GameNickname(i - 1)>>])

TrainerInputs == {<<>>, <<145, 164, 163, 80, 80, 80, 80, 80, 80, 80>>}

\* What the PokeAPI lookup of _suggest_moves_for_species_level and the name
\* table of names.species_name give for the species that are appended
AppendInputs ==
    { [species_id |-> 25, level |-> 5, suggested |-> <<<<33, 45, 0, 0>>, <<35, 40, 0, 0>>>>,
       species_name |-> <<"P", "i", "k", "a", "c", "h", "u">>],
      [species_id |-> 251, level |-> 100, suggested |-> <<<<73>>, <<10>>>>,
       species_name |-> <<>>] }

NoPartyCall == [op |-> "", ok |-> TRUE, err |-> "", pre |-> <<>>, wcalls |-> <<>>,
                slot |-> 0, species_id |-> 0, confirmed |-> FALSE, pre_keys |-> {},
                active_party_slot |-> 0, edit_buffer |-> <<>>, editing_keys |-> {},
                steps |-> 0, edits |-> 0]

\* The GUI is constructed (lines 155-157) over a loaded game
InitParty ==
    /\ fld = NoField
    /\ \E n \in 0..6, trainer \in TrainerInputs : mem = GameParty(n, trainer)
    /\ res = NoPartyCall

\* The Add button: _append_party_pokemon(species_id, level)
AppendPartyPokemon(in) ==
    /\ res.steps < MaxPartySteps
    /\ LET r == _append_party_pokemon(mem, in.species_id, in.level, in.suggested,
                                      in.species_name)
       IN  /\ mem' = r.mem
           /\ res' = [res EXCEPT !.op = "_append_party_pokemon", !.ok = r.ok, !.err = r.err,
                                 !.pre = mem, !.wcalls = r.wcalls,
                                 !.slot = Peek(mem, PARTY_COUNT),
                                 !.species_id = in.species_id, !.confirmed = FALSE,
                                 !.active_party_slot =
                                     IF r.ok THEN r.active_party_slot[1] ELSE @,
                                 !.steps = @ + 1, !.edits = @ + 1]
    /\ UNCHANGED fld

\* The Delete button: _delete_party_pokemon()
DeletePartyPokemon(confirmed) ==
    /\ res.steps < MaxPartySteps
    /\ LET r == _delete_party_pokemon(mem, res.active_party_slot, res.edit_buffer,
                                      res.editing_keys, confirmed)
       IN  /\ mem' = r.mem
           /\ res' = [res EXCEPT !.op = "_delete_party_pokemon",
                                 !.ok = (r.wcalls # <<>>), !.err = r.status,
                                 !.pre = mem, !.wcalls = r.wcalls,
                                 !.slot = res.active_party_slot, !.confirmed = confirmed,
                                 !.pre_keys = DOMAIN res.edit_buffer,
                                 !.active_party_slot = r.active_party_slot,
                                 !.edit_buffer = r.edit_buffer,
                                 !.editing_keys = r.editing_keys,
                                 !.steps = @ + 1,
                                 !.edits = IF r.wcalls # <<>> THEN @ + 1 ELSE @]
    /\ UNCHANGED fld

\* A slot button: _set_active_party_slot(slot)
SetActivePartySlot(slot) ==
    /\ res.steps < MaxPartySteps
    /\ res' = [res EXCEPT !.op = "_set_active_party_slot", !.wcalls = <<>>, !.pre = mem,
                          !.active_party_slot = Max(0, Min(5, slot)),
                          !.steps = @ + 1]
    /\ UNCHANGED <<mem, fld>>

\* The species menu: _on_species_selected(choice) buffers an edit of the
\* active slot
OnSpeciesSelected(species_id) ==
    /\ res.steps < MaxPartySteps
    /\ LET key == party_key_prefix(res.active_party_slot) \o ".species"
       IN  res' = [res EXCEPT !.op = "_on_species_selected", !.wcalls = <<>>, !.pre = mem,
                              !.edit_buffer =
                                  [k \in (DOMAIN @) \cup {key} |->
                                      IF k = key THEN species_id % 256 ELSE @[k]],
                              !.steps = @ + 1]
    /\ UNCHANGED <<mem, fld>>

\* FocusIn of an entry: _begin_edit(key)
BeginEdit(key) ==
    /\ res.steps < MaxPartySteps
    /\ res' = [res EXCEPT !.op = "_begin_edit", !.wcalls = <<>>, !.pre = mem,
                          !.editing_keys = @ \cup {key}, !.steps = @ + 1]
    /\ UNCHANGED <<mem, fld>>

\* FocusOut of the money entry: _end_edit("money") buffers the entry's text
EndEdit(key, text) ==
    /\ res.steps < MaxPartySteps
    /\ res' = [res EXCEPT !.op = "_end_edit", !.wcalls = <<>>, !.pre = mem,
                          !.editing_keys = @ \ {key},
                          !.edit_buffer =
                              [k \in (DOMAIN @) \cup {key} |-> IF k = key THEN text ELSE @[k]],
                          !.steps = @ + 1]
    /\ UNCHANGED <<mem, fld>>

NextParty ==
    \/ \E in \in AppendInputs : AppendPartyPokemon(in)
    \/ \E confirmed \in BOOLEAN : DeletePartyPokemon(confirmed)
    \/ \E slot \in 0..5 : SetActivePartySlot(slot)
    \/ OnSpeciesSelected(152)
    \/ BeginEdit("money")
    \/ EndEdit("money", "500")

SpecParty == InitParty /\ [][NextParty]_vars

PartyCountOf(m) == Peek(m, PARTY_COUNT)
SpeciesEntry(m, i) == Peek(m, PARTY_SPECIES_LIST_START + i)
StructOf(m, i) == read_mem(m, MEM_LEN, PARTY_MON_1_BASE + (i * PARTY_MON_STRUCT_SIZE),
                           PARTY_MON_STRUCT_SIZE)
OtNameOf(m, i) == read_mem(m, MEM_LEN, PARTY_OT_NAMES_START + (i * PARTY_NAME_LEN),
                           PARTY_NAME_LEN)
NicknameOf(m, i) == read_mem(m, MEM_LEN, PARTY_NICKNAMES_START + (i * PARTY_NAME_LEN),
                             PARTY_NAME_LEN)

\* C24: from a party of 0..6 members whose species-list entry i is the
\* species byte of slot i for i < count, every sequence of appends and
\* deletes keeps the count in 0..6 and entry i equal to the species byte of
\* slot i for i < count; once an append or a confirmed delete has run,
\* entries count..5 are 0 and entry 6 is 0xFF; an append on a full party
\* fails with 'Party is full' before any memory write.
C24_PartyStaysConsistent ==
    LET count == PartyCountOf(mem)
    IN  /\ count \in 0..6
        /\ \A i \in 0..(count - 1) : SpeciesEntry(mem, i) = StructOf(mem, i)[1]
        /\ (res.edits >= 1) =>
               /\ \A i \in count..5 : SpeciesEntry(mem, i) = 0
               /\ SpeciesEntry(mem, 6) = 255
        /\ (res.op = "_append_party_pokemon" /\ PartyCountOf(res.pre) >= 6) =>
               /\ ~res.ok
               /\ res.err = "Party is full"
               /\ res.wcalls = <<>>
               /\ mem = res.pre

\* After a delete, species 25 is appended to a party of one, whose list then
\* names it in entry 1
C24_Witness ==
    /\ res.op = "_append_party_pokemon"
    /\ res.ok
    /\ res.edits = 2
    /\ PartyCountOf(res.pre) = 1
    /\ PartyCountOf(mem) = 2
    /\ SpeciesEntry(mem, 1) = 25
    /\ StructOf(mem, 1)[1] = 25
    /\ SpeciesEntry(mem, 2) = 0

\* C25: a confirmed delete of slot s from a party of n members (0 <= s < n
\* <= 6) leaves slots 0..s-1 as they were, moves struct, OT name and nickname
\* of slot i+1 into slot i for s <= i <= n-2, zero-fills the struct of slot
\* n-1 and fills its two names with 0x50, sets the count to n-1, drops every
\* buffered edit whose key starts with 'party[' and sets active_party_slot to
\* min(s, n-2) clamped at 0; on an empty party or with s >= n nothing is
\* written.
C25_DeleteShiftsSlotsDown ==
    (res.op = "_delete_party_pokemon") =>
        LET n == PartyCountOf(res.pre)
            s == res.slot
        IN  /\ (n = 0 \/ s >= n) => (res.wcalls = <<>> /\ mem = res.pre)
            /\ (res.confirmed /\ 0 <= s /\ s < n /\ n <= 6) =>
                   /\ \A i \in 0..(s - 1) :
                          /\ StructOf(mem, i) = StructOf(res.pre, i)
                          /\ OtNameOf(mem, i) = OtNameOf(res.pre, i)
                          /\ NicknameOf(mem, i) = NicknameOf(res.pre, i)
                   /\ \A i \in s..(n - 2) :
                          /\ StructOf(mem, i) = StructOf(res.pre, i + 1)
                          /\ OtNameOf(mem, i) = OtNameOf(res.pre, i + 1)
                          /\ NicknameOf(mem, i) = NicknameOf(res.pre, i + 1)
                   /\ StructOf(mem, n - 1) = [k \in 1..48 |-> 0]
                   /\ OtNameOf(mem, n - 1) = [k \in 1..11 |-> 80]
                   /\ NicknameOf(mem, n - 1) = [k \in 1..11 |-> 80]
                   /\ PartyCountOf(mem) = n - 1
                   /\ \A k \in DOMAIN res.edit_buffer :
                          ~(Len(k) >= 6 /\ SubSeq(k, 1, 6) = "party[")
                   /\ res.active_party_slot = Max(0, Min(s, n - 2))

\* Slot 0 of a party of four is deleted while an edit of its species is
\* buffered: three members move down and the edit is gone
C25_Witness ==
    /\ res.op = "_delete_party_pokemon"
    /\ res.confirmed
    /\ res.slot = 0
    /\ PartyCountOf(res.pre) = 4
    /\ PartyCountOf(mem) = 3
    /\ "party[0].species" \in res.pre_keys
    /\ res.edit_buffer = <<>>
    /\ StructOf(mem, 2) = StructOf(res.pre, 3)
    /\ StructOf(mem, 2) # StructOf(res.pre, 2)
    /\ NicknameOf(mem, 1) = NicknameOf(res.pre, 2)
    /\ StructOf(mem, 3) = [k \in 1..48 |-> 0]
    /\ res.active_party_slot = 0

(***************************************************************************)
(* The bag editor of the GUI (specification SpecBag): _write_bag_items,    *)
(* _read_bag_items and the two inventory buttons built on them.  An item   *)
(* list is a sequence of pairs <<item_id, qty>>.                           *)
(***************************************************************************)
BAG_ITEMS_START == 54712            \* 0xD5B8
BAG_ITEMS_END_OF_LIST == 54752      \* 0xD5E0
MAX_QTY == 99

\* A clamp that lets quantities below 1 through
clamp_qty_upper_only(qty) == Min(MAX_QTY, qty)

\* max(1, min(MAX_QTY, int(qty)))
clamp_qty(qty) == Max(1, Min(MAX_QTY, qty))

\* The loop of _read_bag_items from index i of the blob on
RECURSIVE read_bag_from(_, _)
read_bag_from(blob, i) ==
    IF i >= Len(blob) THEN <<>>
    ELSE IF blob[i + 1] = 255 THEN <<>>
    ELSE IF i + 1 >= Len(blob) THEN <<>>
    ELSE (IF blob[i + 1] # 0 THEN << <<blob[i + 1], blob[i + 2]>> >> ELSE <<>>)
         \o read_bag_from(blob, i + 2)

\* _read_bag_items() over the memory m
_read_bag_items(m) ==
    LET total_len == (BAG_ITEMS_END_OF_LIST - BAG_ITEMS_START) + 1
    IN  read_bag_from(read_mem(m, MEM_LEN, BAG_ITEMS_START, total_len), 0)

\* _write_bag_items(items) over the memory m: the writer calls and the memory
\* afterwards
_write_bag_items(m, items) ==
    LET total_len == (BAG_ITEMS_END_OF_LIST - BAG_ITEMS_START) + 1
        max_slots == Max(0, (total_len - 1) \div 2)
        kept(p) == (p[1] % 256) # 0 /\ (p[1] % 256) # 255
        valid == SelectSeq(items, kept)
        normalized == [i \in 1..Min(max_slots, Len(valid)) |->
                          <<valid[i][1] % 256, clamp_qty(valid[i][2])>>]
        \* the pairs that fit while pos + 2 <= len(data)
        fit == Min(Len(normalized), total_len \div 2)
        pos == 2 * fit
        data == [k \in 1..total_len |->
                    IF k <= pos THEN normalized[(k + 1) \div 2][2 - (k % 2)] % 256
                    ELSE IF k = pos + 1 THEN 255
                    ELSE 0]
        calls == << <<BAG_ITEMS_START, data>>,
                    <<BAG_ITEM_COUNT, <<Len(normalized) % 256>>>> >>
    IN  [wcalls |-> calls, mem |-> WriteAll(m, calls)]

\* _inventory_add_or_set: item_id is what names.parse_choice gives for the
\* chosen item and qty the number in the quantity entry
_inventory_add_or_set(m, item_id, qty) ==
    IF ~(1 <= item_id /\ item_id <= 255)
    THEN [ok |-> FALSE, items |-> <<>>, wcalls |-> <<>>, mem |-> m]
    ELSE
    LET q == Max(1, Min(99, qty))
        items == _read_bag_items(m)
        found == \E i \in DOMAIN items : items[i][1] = item_id
        replaced == [i \in DOMAIN items |->
                        IF items[i][1] = item_id THEN <<items[i][1], q>> ELSE items[i]]
        new_items == IF found THEN replaced ELSE replaced \o << <<item_id, q>> >>
        w == _write_bag_items(m, new_items)
    IN  [ok |-> TRUE, items |-> new_items, wcalls |-> w.wcalls, mem |-> w.mem]

\* _inventory_remove
_inventory_remove(m, item_id) ==
    LET other(p) == p[1] # item_id
        items == SelectSeq(_read_bag_items(m), other)
        w == _write_bag_items(m, items)
    IN  [ok |-> TRUE, items |-> items, wcalls |-> w.wcalls, mem |-> w.mem]

\* The longest item list handed to _write_bag_items, and the number of
\* handler calls followed
MaxBagItems == 22
MaxBagSteps == 2

BagLenInputs == {0, 1, 3, 19, 20, 21, MaxBagItems}

\* Item lists with ids that are dropped (0 and 0xFF), repeated ids and
\* quantities below 1 and above 99
BagItemInputs ==
    {[i \in 1..n |-> <<i, (i * 7) - 10>>] : n \in BagLenInputs}
    \cup {[i \in 1..n |-> <<IF i % 4 = 0 THEN 0 ELSE IF i % 4 = 2 THEN 255 ELSE 7 + i,
                            IF i % 3 = 0 THEN 0 ELSE 99 + (i % 3)>>] : n \in BagLenInputs}
    \cup {[i \in 1..n |-> <<200 + (i % 2), 50>>] : n \in BagLenInputs}

\* The bag of a game: a fresh one, and one that holds two items, with older
\* entries after the terminator; the bytes around the bag are in use
BagMemInputs ==
    { WriteAll(<<>>, << <<BAG_ITEM_COUNT - 1, <<17>>>>,
                        <<BAG_ITEMS_END_OF_LIST + 1, <<3>>>> >>),
      WriteAll(<<>>, << <<BAG_ITEM_COUNT - 1, <<17, 2, 7, 3, 9, 200, 255, 12, 1, 13, 4>>>>,
                        <<BAG_ITEMS_END_OF_LIST - 1, <<44, 45, 3>>>> >>) }

NoBagCall == [op |-> "", ok |-> TRUE, items |-> <<>>, out |-> <<>>, pre |-> <<>>,
              wcalls |-> <<>>, wrote |-> FALSE, steps |-> 0]

\* The caller holds an item list
InitBag ==
    /\ fld = NoField
    /\ mem \in BagMemInputs
    /\ \E items \in BagItemInputs : res = [NoBagCall EXCEPT !.items = items]

\* self._write_bag_items(items) of the list the caller holds
WriteBagItems ==
    /\ res.op = ""
    /\ LET w == _write_bag_items(mem, res.items)
       IN  /\ mem' = w.mem
           /\ res' = [res EXCEPT !.op = "_write_bag_items", !.pre = mem,
                                 !.wcalls = w.wcalls, !.wrote = TRUE]
    /\ UNCHANGED fld

\* self._read_bag_items()
ReadBagItems ==
    /\ res.op # "_read_bag_items"
    /\ res' = [res EXCEPT !.op = "_read_bag_items", !.out = _read_bag_items(mem)]
    /\ UNCHANGED <<mem, fld>>

\* The Add / Set Qty button
InventoryAddOrSet(item_id, qty) ==
    /\ res.steps < MaxBagSteps
    /\ LET r == _inventory_add_or_set(mem, item_id, qty)
       IN  /\ mem' = r.mem
           /\ res' = [res EXCEPT !.op = "_inventory_add_or_set", !.ok = r.ok,
                                 !.items = IF r.ok THEN r.items ELSE @,
                                 !.pre = IF r.ok THEN mem ELSE @,
                                 !.wcalls = r.wcalls,
                                 !.wrote = IF r.ok THEN TRUE ELSE @,
                                 !.steps = @ + 1]
    /\ UNCHANGED fld

\* The Remove button
InventoryRemove(item_id) ==
    /\ res.steps < MaxBagSteps
    /\ LET r == _inventory_remove(mem, item_id)
       IN  /\ mem' = r.mem
           /\ res' = [res EXCEPT !.op = "_inventory_remove", !.ok = r.ok,
                                 !.items = r.items, !.pre = mem, !.wcalls = r.wcalls,
                                 !.wrote = TRUE, !.steps = @ + 1]
    /\ UNCHANGED fld

NextBag ==
    \/ WriteBagItems
    \/ ReadBagItems
    \/ \E in \in {<<7, 0>>, <<9, 150>>, <<201, 42>>, <<300, 5>>} : InventoryAddOrSet(in[1], in[2])
    \/ \E item_id \in {7, 201} : InventoryRemove(item_id)

SpecBag == InitBag /\ [][NextBag]_vars

\* The pairs a written list reads back as: ids 0 and 0xFF dropped, quantities
\* clamped to 1..99, the first 20 kept
BagExpected(items) ==
    LET real(p) == p[1] # 0 /\ p[1] # 255
        kept == SelectSeq(items, real)
    IN  [i \in 1..Min(20, Len(kept)) |->
            <<kept[i][1], IF kept[i][2] < 1 THEN 1
                          ELSE IF kept[i][2] > 99 THEN 99 ELSE kept[i][2]>>]

\* C26: after _write_bag_items(items), _read_bag_items returns the input
\* pairs in order with item ids 0 and 0xFF dropped, quantities clamped to
\* 1..99 and the list cut to 20 pairs; the 0xFF terminator sits right after
\* the last pair, all later bytes of the region are 0, nothing outside
\* BAG_ITEMS_START..BAG_ITEMS_END_OF_LIST and BAG_ITEM_COUNT is written, and
\* BAG_ITEM_COUNT is the number of pairs returned.
C26_BagListRoundTrip ==
    res.wrote =>
        LET expected == BagExpected(res.items)
            n == Len(expected)
            region == BAG_ITEMS_START..BAG_ITEMS_END_OF_LIST
        IN  /\ (res.op = "_read_bag_items") => (res.out = expected)
            /\ \A i \in 1..n :
                  /\ Peek(mem, BAG_ITEMS_START + (2 * (i - 1))) = expected[i][1]
                  /\ Peek(mem, BAG_ITEMS_START + (2 * (i - 1)) + 1) = expected[i][2]
            /\ Peek(mem, BAG_ITEMS_START + (2 * n)) = 255
            /\ \A a \in region : (a > BAG_ITEMS_START + (2 * n)) => (Peek(mem, a) = 0)
            /\ \A a \in (DOMAIN mem) \cup (DOMAIN res.pre) :
                  (a \notin region /\ a # BAG_ITEM_COUNT) => (Peek(mem, a) = Peek(res.pre, a))
            /\ \A i \in DOMAIN res.wcalls :
                  \A k \in 1..Len(res.wcalls[i][2]) :
                      (res.wcalls[i][1] + k - 1) \in region \cup {BAG_ITEM_COUNT}
            /\ Peek(mem, BAG_ITEM_COUNT) = n

\* A list of 22 pairs with quantities from -3 to 144 is written over a bag
\* that held two items, and reads back as its first 20 pairs, clamped
C26_Witness ==
    /\ res.op = "_read_bag_items"
    /\ res.wrote
    /\ Len(res.items) = 22
    /\ res.items[1] = <<1, -3>>
    /\ Len(res.out) = 20
    /\ res.out[1] = <<1, 1>>
    /\ res.out[20] = <<20, 99>>
    /\ Peek(res.pre, BAG_ITEMS_START) = 7
    /\ Peek(mem, BAG_ITEMS_END_OF_LIST) = 255
    /\ Peek(mem, BAG_ITEMS_END_OF_LIST + 1) = 3

(***************************************************************************)
(* Keyboard input of the two runners (specification SpecKeys): the polling *)
(* loop of run_emulator.py and the key handlers of run_emulator_gui.py.    *)
(* sent holds the input events the last step sent to the emulator, and     *)
(* last the kind of the last event sent for each key.                      *)
(***************************************************************************)
\* keymap of run_emulator.py: key |-> <<press event, release event>>
keymap ==
    DictOfItems(<< <<"w", <<"PRESS_ARROW_UP", "RELEASE_ARROW_UP">>>>,
                   <<"s", <<"PRESS_ARROW_DOWN", "RELEASE_ARROW_DOWN">>>>,
                   <<"d", <<"PRESS_ARROW_RIGHT", "RELEASE_ARROW_RIGHT">>>>,
                   <<"a", <<"PRESS_ARROW_LEFT", "RELEASE_ARROW_LEFT">>>>,
                   <<"z", <<"PRESS_BUTTON_A", "RELEASE_BUTTON_A">>>>,
                   <<"x", <<"PRESS_BUTTON_B", "RELEASE_BUTTON_B">>>>,
                   <<"c", <<"PRESS_BUTTON_START", "RELEASE_BUTTON_START">>>>,
                   <<"v", <<"PRESS_BUTTON_SELECT", "RELEASE_BUTTON_SELECT">>>>,
                   <<"enter", <<"PRESS_BUTTON_START", "RELEASE_BUTTON_START">>>>,
                   <<"space", <<"PRESS_BUTTON_SELECT", "RELEASE_BUTTON_SELECT">>>> >>)

\* self.keymap of run_emulator_gui.py
gui_keymap ==
    DictOfItems(<< <<"w", <<"PRESS_ARROW_UP", "RELEASE_ARROW_UP">>>>,
                   <<"s", <<"PRESS_ARROW_DOWN", "RELEASE_ARROW_DOWN">>>>,
                   <<"d", <<"PRESS_ARROW_RIGHT", "RELEASE_ARROW_RIGHT">>>>,
                   <<"a", <<"PRESS_ARROW_LEFT", "RELEASE_ARROW_LEFT">>>>,
                   <<"z", <<"PRESS_BUTTON_A", "RELEASE_BUTTON_A">>>>,
                   <<"x", <<"PRESS_BUTTON_B", "RELEASE_BUTTON_B">>>>,
                   <<"c", <<"PRESS_BUTTON_START", "RELEASE_BUTTON_START">>>>,
                   <<"v", <<"PRESS_BUTTON_SELECT", "RELEASE_BUTTON_SELECT">>>>,
                   <<"return", <<"PRESS_BUTTON_START", "RELEASE_BUTTON_START">>>>,
                   <<"space", <<"PRESS_BUTTON_SELECT", "RELEASE_BUTTON_SELECT">>>> >>)

\* event.keysym.lower()
RECURSIVE KeysymLower(_)
KeysymLower(keysym) ==
    IF Len(keysym) = 0 THEN ""
    ELSE LET ch == SubSeq(keysym, 1, 1)
         IN  (IF InChars(UpperChars, ch) THEN LowerChars[OrdOffset(UpperChars, ch) + 1] ELSE ch)
             \o KeysymLower(SubSeq(keysym, 2, Len(keysym)))

\* A press condition that does not look at the held keys
press_due_while_held(key, keys, held_keys) == key \in keys

\* key in self.keymap and key not in self.held_keys
press_due(key, keys, held_keys) == key \in keys /\ key \notin held_keys

\* key in self.keymap and key in self.held_keys
release_due(key, keys, held_keys) == key \in keys /\ key \in held_keys

\* The keys whose events are followed, and the widget classes that can hold
\* the focus
KeyInputs == {"w", "z", "c", "enter"}
KeysymInputs == {"w", "z", "c", "Return"}
FocusInputs == {"", "Canvas", "Entry"}

\* held_keys = set() before the first event, in either runner
InitKeys ==
    /\ mem = <<>>
    /\ fld = NoField
    /\ \E runner \in {"run_emulator", "run_emulator_gui"} :
          res = [op |-> "", runner |-> runner, held_keys |-> {}, sent |-> <<>>,
                 last |-> [k \in (DOMAIN keymap) \cup (DOMAIN gui_keymap) |-> ""],
                 focus |-> ""]

\* The events sent by a step, and the bookkeeping of the last event per key
KeyStep(op, key, event, kind, held_keys) ==
    res' = [res EXCEPT !.op = op, !.held_keys = held_keys,
                       !.sent = IF kind = "" THEN <<>> ELSE << <<key, event, kind>> >>,
                       !.last = IF kind = "" THEN @ ELSE [@ EXCEPT ![key] = kind]]

\* One pass of the loop body of run_emulator.main for a key of the keymap,
\* keyboard.is_pressed(key) giving is_down
PollKey(key, is_down) ==
    /\ res.runner = "run_emulator"
    /\ IF is_down /\ press_due(key, DOMAIN keymap, res.held_keys)
       THEN KeyStep("main", key, keymap[key][1], "press", res.held_keys \cup {key})
       ELSE IF ~is_down /\ release_due(key, DOMAIN keymap, res.held_keys)
       THEN KeyStep("main", key, keymap[key][2], "release", res.held_keys \ {key})
       ELSE KeyStep("main", key, "", "", res.held_keys)
    /\ UNCHANGED <<mem, fld>>

\* _on_key_press(event): nothing happens while an entry or text widget has
\* the focus
OnKeyPress(keysym) ==
    /\ res.runner = "run_emulator_gui"
    /\ LET key == KeysymLower(keysym)
       IN  IF res.focus \in {"Entry", "TEntry", "Text"}
           THEN KeyStep("_on_key_press", key, "", "", res.held_keys)
           ELSE IF press_due(key, DOMAIN gui_keymap, res.held_keys)
           THEN KeyStep("_on_key_press", key, gui_keymap[key][1], "press",
                        res.held_keys \cup {key})
           ELSE KeyStep("_on_key_press", key, "", "", res.held_keys)
    /\ UNCHANGED <<mem, fld>>

\* _on_key_release(event)
OnKeyRelease(keysym) ==
    /\ res.runner = "run_emulator_gui"
    /\ LET key == KeysymLower(keysym)
       IN  IF res.focus \in {"Entry", "TEntry", "Text"}
           THEN KeyStep("_on_key_release", key, "", "", res.held_keys)
           ELSE IF release_due(key, DOMAIN gui_keymap, res.held_keys)
           THEN KeyStep("_on_key_release", key, gui_keymap[key][2], "release",
                        res.held_keys \ {key})
           ELSE KeyStep("_on_key_release", key, "", "", res.held_keys)
    /\ UNCHANGED <<mem, fld>>

\* The user moves the focus to another widget of the GUI
MoveFocus(class) ==
    /\ res.runner = "run_emulator_gui"
    /\ res' = [res EXCEPT !.op = "focus", !.focus = class, !.sent = <<>>]
    /\ UNCHANGED <<mem, fld>>

NextKeys ==
    \/ \E key \in KeyInputs, is_down \in BOOLEAN : PollKey(key, is_down)
    \/ \E keysym \in KeysymInputs : OnKeyPress(keysym)
    \/ \E keysym \in KeysymInputs : OnKeyRelease(keysym)
    \/ \E class \in FocusInputs : MoveFocus(class)

SpecKeys == InitKeys /\ [][NextKeys]_vars

\* C28: key events are edge-triggered in both runners: for every mapped key
\* the events sent to the emulator alternate press, release, press, ...,
\* starting with a press (a press is sent only when the last event sent for
\* the key is not a press, a release only when it is a press, and each is the
\* key's own event of the keymap), and the held-key set is always the set of
\* keys whose last sent event is a press.
C28_KeyEventsEdgeTriggered ==
    /\ [](res.held_keys = {k \in DOMAIN res.last : res.last[k] = "press"})
    /\ [][\A i \in DOMAIN res'.sent :
             LET key == res'.sent[i][1]
                 event == res'.sent[i][2]
                 kind == res'.sent[i][3]
                 map == IF res.runner = "run_emulator" THEN keymap ELSE gui_keymap
             IN  /\ key \in DOMAIN map
                 /\ kind = "press" =>
                       (res.last[key] \in {"", "release"} /\ event = map[key][1])
                 /\ kind = "release" =>
                       (res.last[key] = "press" /\ event = map[key][2])
                 /\ kind \in {"press", "release"}]_vars

\* The GUI sends the release of Return after its press while z is still held
C28_Witness ==
    /\ res.runner = "run_emulator_gui"
    /\ res.op = "_on_key_release"
    /\ res.sent = << <<"return", "RELEASE_BUTTON_START", "release">> >>
    /\ res.held_keys = {"z"}
    /\ res.last["w"] = "release"

(***************************************************************************)
(* The memory panel of run_emulator.py (specification SpecPanel): fields   *)
(* of the catalog are written and the panel of the default watch keys is   *)
(* printed.  A line of the panel is a record: its key, what it reports     *)
(* ("value", "err" or "<missing field>"), and the field's address and the  *)
(* value or error read for it.                                             *)
(***************************************************************************)
DEFAULT_WATCH_KEYS ==
    <<"player_x", "player_y", "map_bank", "map_number", "money", "party_count",
      "party[0].level", "party[0].hp", "party[0].max_hp",
      "battle_type", "wild_species", "wild_level">>

\* print_memory_panel(memory, watch_keys) over a memory of memory_len bytes
\* holding m: the lines after the heading, one per watch key.  The catalog is
\* gml.build_ram_catalog(include_party=False); cat.get(key) is None for a key
\* it lacks.
print_memory_panel(m, memory_len, watch_keys) ==
    LET cat == build_ram_catalog(FALSE)
    IN  [i \in DOMAIN watch_keys |->
            LET key == watch_keys[i]
            IN  IF key \notin DOMAIN cat
                THEN [key |-> key, reports |-> "<missing field>", addr |-> 0, val |-> Fail("")]
                ELSE LET field == cat[key]
                         val == read_field(m, Min(memory_len, MEM_LEN) - field.addr, field)
                     IN  [key |-> key, reports |-> IF val.ok THEN "value" ELSE "err",
                          addr |-> field.addr, val |-> val]]

\* The fields the session writes: those of the default watch keys, in the
\* catalog with the party fields
PanelFields == {RamCatalog[DEFAULT_WATCH_KEYS[i]] : i \in DOMAIN DEFAULT_WATCH_KEYS}

\* The lengths of the memory the panel is printed of: the 64 KiB address space
\* and a buffer that ends at 0xD000, below the watched fields
PanelMemoryLens == {65536, 53248}

InitPanel ==
    /\ mem \in MemInputs
    /\ fld \in PanelFields
    /\ res = NoCall

\* print_memory_panel(memory), with the default watch keys
PrintMemoryPanel(memory_len) ==
    /\ res' = [op |-> "print_memory_panel", memory_len |-> memory_len,
               lines |-> print_memory_panel(mem, memory_len, DEFAULT_WATCH_KEYS)]
    /\ UNCHANGED <<mem, fld>>

NextPanel ==
    \/ \E value \in WriteInputs(fld) : WriteField(value)
    \/ \E memory_len \in PanelMemoryLens : PrintMemoryPanel(memory_len)

SpecPanel == InitPanel /\ [][NextPanel]_vars

\* C30: print_memory_panel resolves every key of DEFAULT_WATCH_KEYS,
\* party[0].level, party[0].hp and party[0].max_hp included, to a field of
\* the catalog it builds and prints that field's value or a read error for
\* it; no line of a default watch key reports '<missing field>'.
C30_DefaultWatchKeysResolve ==
    (res.op = "print_memory_panel") =>
        /\ Len(res.lines) = Len(DEFAULT_WATCH_KEYS)
        /\ \A i \in DOMAIN res.lines :
              /\ res.lines[i].key = DEFAULT_WATCH_KEYS[i]
              /\ res.lines[i].reports # "<missing field>"
              /\ res.lines[i].reports \in {"value", "err"}
              /\ res.lines[i].addr = RamCatalog[DEFAULT_WATCH_KEYS[i]].addr

=============================================================================
